---- MODULE Spec2Model ----
(***************************************************************************)
(* Model of the KISS research-fund processing core (research_core.py,      *)
(* config.py) and of its web front-end (app.py).                           *)
(*                                                                         *)
(* Text is modelled as a sequence of characters; every character is a      *)
(* one-token string.  Hangul syllables are written romanised, e.g. the     *)
(* prefix '25 차세대' is <<"2","5"," ","cha","se","dae">>.                  *)
(* A cell of a DataFrame is NaN, a text or an integer.  A DataFrame is a    *)
(* record of its column labels and its rows; every row keeps the index     *)
(* label it had in the frame it was taken from (a RangeIndex, as           *)
(* pd.read_excel builds it).                                               *)
(***************************************************************************)
EXTENDS Integers, Sequences, FiniteSets, TLC

VARIABLES
    budget_classification,  \* the shared BUDGET_CLASSIFICATION dict (config.py)
    classifier,             \* the fields of the DataClassifier instance
    summary_data,           \* SummarySheetGenerator.summary_data
    data,                   \* the row-set at hand (the table read from the uploaded sheet)
    call,                   \* the last call made on the core: what it returned or raised
    probe,                  \* the first generate_summary_sheet call of a run: its argument and result
    file_loader,            \* the fields of the web app's ExcelFileLoader
    req,                    \* per request thread: the route being served and its position in it
    served                  \* number of requests accepted so far

vars == <<budget_classification, classifier, summary_data, data, call, probe, file_loader, req, served>>

----------------------------------------------------------------------------
(* Bounds of the model *)

MaxRows == 3          \* rows of a row-set handed to classify_data
MaxSummaryRows == 2   \* rows of a row-set handed to the sheet generators
MaxRequests == 4      \* requests the web app accepts in one run
MaxMemoLen == 4       \* characters of a memo handed to the extraction functions

----------------------------------------------------------------------------
(* Text *)

\* The characters of the model's texts in code-point order: ASCII, then the
\* Hangul syllables 개, 구, 국, 기, 김, 내, 대, 득, 류, 무, 미, 발, 분, 비, 사, 산, 세,
\* 심, 액, 업, 여, 연, 외, 유, 의, 이, 입, 자, 장, 재, 진, 차, 총, 추, 취, 층, 타, 합,
\* 해, 형, 회.
CodePointOrder ==
    <<" ", "(", ")", ",", "-", "0", "1", "2", "3", "4", "5", "6", "7", "8", "9",
      "A", "B", "_", "a", "b", "n", "x",
      "gae", "gu", "guk", "gi", "kim", "nae", "dae", "deuk", "ryu", "mu", "mi",
      "bal", "bun", "bi", "sa", "san", "se", "sim", "aek", "eop", "yeo", "yeon",
      "oe", "yu", "ui", "lee", "ip", "ja", "jang", "jae", "jin", "cha", "chong",
      "chu", "chwi", "cheung", "ta", "hap", "hae", "hyeong", "hoe">>

\* the class [가-힣]
Hangul == {CodePointOrder[i] : i \in 23..Len(CodePointOrder)}

Digit == <<"0", "1", "2", "3", "4", "5", "6", "7", "8", "9">>

\* str(n) as a text (sequence of characters)
RECURSIVE StrChars(_)
StrChars(n) ==
    IF n < 0 THEN <<"-">> \o StrChars(-n)
    ELSE IF n < 10 THEN <<Digit[n + 1]>>
    ELSE StrChars(n \div 10) \o <<Digit[(n % 10) + 1]>>

\* str(n) as a TLA+ string
RECURSIVE Str(_)
Str(n) ==
    IF n < 0 THEN "-" \o Str(-n)
    ELSE IF n < 10 THEN Digit[n + 1]
    ELSE Str(n \div 10) \o Digit[(n % 10) + 1]

\* str.lower() on one character; only Latin letters have case
Lower(c) == IF c = "A" THEN "a" ELSE IF c = "B" THEN "b" ELSE c

\* s.startswith(p)
StartsWith(s, p) ==
    /\ Len(s) >= Len(p)
    /\ \A i \in 1..Len(p) : s[i] = p[i]

\* p occurs in s at position i
OccursAt(s, p, i) ==
    /\ i + Len(p) - 1 <= Len(s)
    /\ \A j \in 1..Len(p) : s[i + j - 1] = p[j]

\* p in s
Contains(s, p) == \E i \in 1..(Len(s) + 1) : OccursAt(s, p, i)

CodePoint(c) == CHOOSE i \in DOMAIN CodePointOrder : CodePointOrder[i] = c

\* a < b for two texts (Python's str ordering)
RECURSIVE TextLess(_, _)
TextLess(a, b) ==
    IF b = <<>> THEN FALSE
    ELSE IF a = <<>> THEN TRUE
    ELSE IF Head(a) = Head(b) THEN TextLess(Tail(a), Tail(b))
    ELSE CodePoint(Head(a)) < CodePoint(Head(b))

----------------------------------------------------------------------------
(* Cells and DataFrames *)

NaN == [t |-> "null", s |-> <<>>, n |-> 0]
Txt(s) == [t |-> "str", s |-> s, n |-> 0]
Num(n) == [t |-> "num", s |-> <<>>, n |-> n]

\* A column label: a text, or (a numeric header cell of the sheet) an integer.
Col(name) == [t |-> "str", v |-> name]
IntCol(name) == [t |-> "int", v |-> name]

NoneDF == [none |-> TRUE, columns |-> <<>>, rows |-> <<>>]
DataFrame(columns, rows) == [none |-> FALSE, columns |-> columns, rows |-> rows]

\* DataFrame.empty: some axis has length 0
Empty(df) == Len(df.columns) = 0 \/ Len(df.rows) = 0

Range(f) == {f[i] : i \in DOMAIN f}
HasColumn(df, c) == c \in Range(df.columns)

\* frame[mask]: the rows whose index label the boolean mask selects, labels kept
RECURSIVE SelectRows(_, _)
SelectRows(rows, mask) ==
    IF rows = <<>> THEN <<>>
    ELSE (IF Head(rows).idx \in mask THEN <<Head(rows)>> ELSE <<>>)
         \o SelectRows(Tail(rows), mask)

IndexOf(df) == {df.rows[i].idx : i \in DOMAIN df.rows}

----------------------------------------------------------------------------
(* config.py *)

BUSINESS_PREFIX == <<"2", "5", " ", "cha", "se", "dae">>             \* '25 차세대'
RESEARCH_PREFIX == <<"2", "5", " ", "sim", "cheung", "yeon", "gu">>  \* '25 심층연구'
SUMMARY_COLUMN == Col("jeogyo")                                      \* '적요'
ITEM_COLUMN == Col("yesangwamok")                                    \* '예산과목'
AMOUNT_COLUMN == Col("chongjigeubaek")                               \* '총지급액'
UNCLASSIFIED_WARNING_THRESHOLD_PCT == 70                             \* 0.7

----------------------------------------------------------------------------
(* DataClassifier *)

NoResult == [kind |-> "none"]
NoError == [type |-> "", message |-> <<>>]
Returned(v) == [raised |-> FALSE, error |-> NoError, ret |-> v]
Raised(type, message) ==
    [raised |-> TRUE, error |-> [type |-> type, message |-> message], ret |-> NoResult]

EmptyStats == [empty |-> TRUE]

\* DataClassifier.__init__
NewClassifier ==
    [business_data |-> NoneDF, research_data |-> NoneDF,
     unclassified_data |-> NoneDF, classification_stats |-> EmptyStats]

\* ', '.join(names): raises TypeError on the first label that is not a str
RECURSIVE JoinColumns(_)
JoinColumns(columns) ==
    IF columns = <<>> THEN <<>>
    ELSE IF Len(columns) = 1 THEN <<Head(columns).v>>
    ELSE <<Head(columns).v, ", ">> \o JoinColumns(Tail(columns))

AllStr(columns) == \A i \in DOMAIN columns : columns[i].t = "str"

\* the checks that open classify_data: the error raised, or NoError
classify_check(df) ==
    IF df.none \/ Empty(df)
    THEN [type |-> "ValueError", message |-> <<"no data to classify">>]
    ELSE IF ~HasColumn(df, SUMMARY_COLUMN)
    THEN IF AllStr(df.columns)
         THEN [type |-> "ValueError",
               message |-> <<"'", SUMMARY_COLUMN.v, "' column is not in the data; available columns: ">>
                           \o JoinColumns(df.columns)]
         ELSE [type |-> "TypeError",
               message |-> <<"sequence item: expected str instance, int found">>]
    ELSE NoError

\* .fillna('').astype(str) on one cell
fillna_astype_str(cell) ==
    IF cell.t = "null" THEN <<>>
    ELSE IF cell.t = "str" THEN cell.s
    ELSE StrChars(cell.n)

\* work_data: a copy of the frame with the memo column made text
work_data(df) ==
    [df EXCEPT !.rows = [i \in DOMAIN df.rows |->
        [df.rows[i] EXCEPT !.cells[SUMMARY_COLUMN] = Txt(fillna_astype_str(@))]]]

memo_of(row) == row.cells[SUMMARY_COLUMN].s

\* a plausible slip: the prefix is looked for anywhere in the memo
prefix_mask_contains(work, prefix) ==
    {work.rows[i].idx : i \in {j \in DOMAIN work.rows : Contains(memo_of(work.rows[j]), prefix)}}

\* work_data[summary_column].str.startswith(prefix), as the set of index labels that are True
prefix_mask(work, prefix) ==
    {work.rows[i].idx : i \in {j \in DOMAIN work.rows : StartsWith(memo_of(work.rows[j]), prefix)}}

business_mask(work) == prefix_mask(work, BUSINESS_PREFIX)
research_mask(work) == prefix_mask(work, RESEARCH_PREFIX)

\* a plausible slip: the research mask is left out of the complement
unclassified_mask_business_only(work) == IndexOf(work) \ business_mask(work)

\* ~(business_mask | research_mask)
unclassified_mask(work) ==
    IndexOf(work) \ (business_mask(work) \cup research_mask(work))

select(work, mask) == DataFrame(work.columns, SelectRows(work.rows, mask))

Gcd(a, b) == CHOOSE g \in 1..(IF a > b THEN a ELSE b) :
                /\ a % g = 0 /\ b % g = 0
                /\ \A h \in (g + 1)..(IF a > b THEN a ELSE b) : ~(a % h = 0 /\ b % h = 0)

\* count / total * 100, kept exact as a reduced fraction
percentage(count, total) ==
    IF total > 0
    THEN IF count = 0 THEN [num |-> 0, den |-> 1]
         ELSE [num |-> (count * 100) \div Gcd(count * 100, total),
               den |-> total \div Gcd(count * 100, total)]
    ELSE [num |-> 0, den |-> 1]

\* _generate_stats, from the three stored frames
generate_stats(business, research, unclassified, total_count) ==
    [empty |-> FALSE,
     total |-> total_count,
     business_count |-> Len(business.rows),
     research_count |-> Len(research.rows),
     unclassified_count |-> Len(unclassified.rows),
     business_percentage |-> percentage(Len(business.rows), total_count),
     research_percentage |-> percentage(Len(research.rows), total_count),
     unclassified_percentage |-> percentage(Len(unclassified.rows), total_count)]

\* _log_results: is the warning logged?
log_warning(stats) ==
    stats.unclassified_count * 100 > stats.total * UNCLASSIFIED_WARNING_THRESHOLD_PCT

\* a plausible slip: the stored sets are cleared before the input is checked
classify_data_clearing(self, df) ==
    LET err == classify_check(df) IN
    IF err # NoError
    THEN [out |-> [raised |-> TRUE, error |-> err, ret |-> NoResult],
          self |-> [business_data |-> NoneDF, research_data |-> NoneDF,
                    unclassified_data |-> NoneDF,
                    classification_stats |-> self.classification_stats],
          warning |-> FALSE]
    ELSE
        LET work == work_data(df)
            b == select(work, business_mask(work))
            r == select(work, research_mask(work))
            u == select(work, unclassified_mask(work))
            stats == generate_stats(b, r, u, Len(df.rows))
        IN  [out |-> Returned([kind |-> "classification", business |-> b,
                               research |-> r, unclassified |-> u]),
             self |-> [business_data |-> b, research_data |-> r,
                       unclassified_data |-> u, classification_stats |-> stats],
             warning |-> log_warning(stats)]

\* classify_data run alone on the classifier `self`: the outcome and the classifier after it
classify_data(self, df) ==
    LET err == classify_check(df) IN
    IF err # NoError
    THEN [out |-> [raised |-> TRUE, error |-> err, ret |-> NoResult], self |-> self,
          warning |-> FALSE]
    ELSE
        LET work == work_data(df)
            b == select(work, business_mask(work))
            r == select(work, research_mask(work))
            u == select(work, unclassified_mask(work))
            stats == generate_stats(b, r, u, Len(df.rows))
        IN  [out |-> Returned([kind |-> "classification", business |-> b,
                               research |-> r, unclassified |-> u]),
             self |-> [business_data |-> b, research_data |-> r,
                       unclassified_data |-> u, classification_stats |-> stats],
             warning |-> log_warning(stats)]

----------------------------------------------------------------------------
(* SummarySheetGenerator *)

\* Columns of a summary sheet (SUMMARY_SHEET_COLUMNS): 예산목 cat, 세목 sub,
\* 예산과목 item, 예산금액 budget, 지출액 spent, 예산잔액 remaining, 집행률 rate.
SUMMARY_SHEET_COLUMNS == <<"cat", "sub", "item", "budget", "spent", "remaining", "rate">>
\* TOTAL_SHEET_COLUMNS: 지출액 is split into 센터 center and 심층연구 research.
TOTAL_SHEET_COLUMNS ==
    <<"cat", "sub", "item", "budget", "center", "research", "remaining", "rate">>

TOTAL_LABEL == <<"chong", "aek">>             \* '총액'
GRAND_TOTAL_TITLE == <<"chong", "hap">>       \* '총합'
UNCLASSIFIED_LABEL == <<"mi", "bun", "ryu">>  \* '미분류'

\* pd.DataFrame(): no columns, no rows
BareFrame == [none |-> FALSE, columns |-> <<>>, rows |-> <<>>]
\* pd.DataFrame(columns=...)
EmptySheet(columns) == [none |-> FALSE, columns |-> columns, rows |-> <<>>]
Sheet(columns, rows) == [none |-> FALSE, columns |-> columns, rows |-> rows]

RECURSIVE SumOver(_, _)
SumOver(f, S) ==
    IF S = {} THEN 0
    ELSE LET x == CHOOSE y \in S : TRUE IN f[x] + SumOver(f, S \ {x})

RECURSIVE SumSeq(_)
SumSeq(q) == IF q = <<>> THEN 0 ELSE Head(q) + SumSeq(Tail(q))

LowerText(s) == [i \in DOMAIN s |-> Lower(s[i])]

\* Series.str.contains(escaped_item, case=False, regex=True) for an item whose
\* only regex metacharacters are the parentheses that the caller escaped
str_contains(label, item) == Contains(LowerText(label), LowerText(item))

\* .fillna('미분류').astype(str) on one line-item cell
item_label(cell) ==
    IF cell.t = "null" THEN UNCLASSIFIED_LABEL
    ELSE IF cell.t = "str" THEN cell.s
    ELSE StrChars(cell.n)

\* pd.to_numeric(errors='coerce').fillna(0) on one amount cell
\* (the model's text cells are not numerals)
to_numeric_fillna0(cell) == IF cell.t = "num" THEN cell.n ELSE 0

\* the frame after the preprocessing of _aggregate_expenses: labels filled and
\* made text, amounts made numbers
preprocessed(df) ==
    [df EXCEPT !.rows =
        [i \in DOMAIN df.rows |->
            [df.rows[i] EXCEPT !.cells =
                [c \in DOMAIN df.rows[i].cells |->
                    IF c = ITEM_COLUMN THEN Txt(item_label(df.rows[i].cells[c]))
                    ELSE IF c = AMOUNT_COLUMN
                         THEN Num(to_numeric_fillna0(df.rows[i].cells[c]))
                         ELSE df.rows[i].cells[c]]]]]

\* a plausible slip: work_data is the caller's frame itself, not a copy
caller_frame_in_place(df) ==
    IF df.none \/ Empty(df) \/ ~HasColumn(df, ITEM_COLUMN) \/ ~HasColumn(df, AMOUNT_COLUMN)
    THEN df
    ELSE preprocessed(df)

\* the caller's frame after _aggregate_expenses: work_data = business_data.copy(),
\* the preprocessing writes to the copy
caller_frame(df) == df

\* the grouped sums: raw label -> summed amount
grouped_sum(df) ==
    LET labels == {item_label(df.rows[i].cells[ITEM_COLUMN]) : i \in DOMAIN df.rows} IN
    [l \in labels |->
        SumSeq([i \in DOMAIN df.rows |->
                    IF item_label(df.rows[i].cells[ITEM_COLUMN]) = l
                    THEN to_numeric_fillna0(df.rows[i].cells[AMOUNT_COLUMN]) ELSE 0])]

\* _aggregate_expenses: has_columns is FALSE for the bare pd.DataFrame() it
\* returns when a required column is missing
aggregate_expenses(df) ==
    IF ~HasColumn(df, ITEM_COLUMN) \/ ~HasColumn(df, AMOUNT_COLUMN)
    THEN [has_columns |-> FALSE, spent |-> <<>>]
    ELSE [has_columns |-> TRUE, spent |-> grouped_sum(df)]

\* a plausible slip: the flags are never cleared, every row carries its labels
FlattenItemsLabelled(cat, sub, items, first_cat, first_sub) ==
    [i \in DOMAIN items |->
        [cat |-> cat, sub |-> sub, item |-> items[i],
         is_first_category_item |-> TRUE, is_first_subcategory_item |-> TRUE]]

\* the taxonomy walked in category -> subcategory -> line-item order
RECURSIVE FlattenItems(_, _, _, _, _)
FlattenItems(cat, sub, items, first_cat, first_sub) ==
    IF items = <<>> THEN <<>>
    ELSE <<[cat |-> cat, sub |-> sub, item |-> Head(items),
            is_first_category_item |-> first_cat,
            is_first_subcategory_item |-> first_sub]>>
         \o FlattenItems(cat, sub, Tail(items), FALSE, FALSE)

RECURSIVE FlattenSubs(_, _, _)
FlattenSubs(cat, subs, first_cat) ==
    IF subs = <<>> THEN <<>>
    ELSE FlattenItems(cat, Head(subs).name, Head(subs).items, first_cat, TRUE)
         \o FlattenSubs(cat, Tail(subs), first_cat /\ Head(subs).items = <<>>)

RECURSIVE FlattenCats(_)
FlattenCats(cats) ==
    IF cats = <<>> THEN <<>>
    ELSE FlattenSubs(Head(cats).name, Head(cats).subcategories, TRUE)
         \o FlattenCats(Tail(cats))

TaxonomyItems(bc) == FlattenCats(bc.budget_categories)

\* the raw labels one taxonomy line-item takes: the exact match if there is
\* one, else every label that contains the item
matching_rows(spent, item) ==
    IF item \in DOMAIN spent THEN {item}
    ELSE {l \in DOMAIN spent : str_contains(l, item)}

\* a plausible slip: the matched rows stay in the working table
drop_nothing(spent, matched) == spent

\* expense_summary.drop(matching_rows.index)
drop(spent, matched) == [l \in (DOMAIN spent) \ matched |-> spent[l]]

\* a plausible slip: a line-item nothing was spent on gets no row
RECURSIVE walk_only_spent(_, _)
walk_only_spent(entries, spent) ==
    IF entries = <<>> THEN <<>>
    ELSE (IF matching_rows(spent, Head(entries).item) = {} THEN <<>>
          ELSE <<[cat |-> Head(entries).cat, sub |-> Head(entries).sub,
                  item |-> Head(entries).item,
                  spent |-> SumOver(spent, matching_rows(spent, Head(entries).item))]>>)
         \o walk_only_spent(Tail(entries),
                            drop(spent, matching_rows(spent, Head(entries).item)))

\* the loop of _create_hierarchical_structure over the flattened taxonomy
RECURSIVE walk(_, _)
walk(entries, spent) ==
    IF entries = <<>> THEN <<>>
    ELSE LET e == Head(entries)
             matched == matching_rows(spent, e.item)
         IN  <<[cat |-> IF e.is_first_category_item THEN e.cat ELSE <<>>,
                sub |-> IF e.is_first_subcategory_item THEN e.sub ELSE <<>>,
                item |-> e.item,
                spent |-> SumOver(spent, matched)]>>
             \o walk(Tail(entries), drop(spent, matched))

\* the same loop, keeping per line-item the raw labels of its matching_rows
RECURSIVE walk_taken(_, _)
walk_taken(entries, spent) ==
    IF entries = <<>> THEN <<>>
    ELSE <<matching_rows(spent, Head(entries).item)>>
         \o walk_taken(Tail(entries), drop(spent, matching_rows(spent, Head(entries).item)))

\* the raw labels each line-item of the taxonomy took in generate_summary_sheet(df)
taken_labels(bc, df) ==
    IF df.none \/ Empty(df) \/ ~aggregate_expenses(df).has_columns THEN <<>>
    ELSE walk_taken(TaxonomyItems(bc), aggregate_expenses(df).spent)

\* a plausible slip: the total is taken over the grouped table, not over the rows
total_of_grouped(flat_rows, es) == SumOver(es.spent, DOMAIN es.spent)

\* total_expense, accumulated over the rows appended
total_expense(flat_rows, es) == SumSeq([i \in DOMAIN flat_rows |-> flat_rows[i].spent])

\* _create_hierarchical_structure: the flat rows and the TOTAL row, or the
\* bare frame when the lookup of the label column raises KeyError
create_hierarchical_structure(bc, es) ==
    IF ~es.has_columns /\ TaxonomyItems(bc) # <<>> THEN BareFrame
    ELSE LET flat_rows == walk(TaxonomyItems(bc), es.spent) IN
         Sheet(<<"cat", "sub", "item", "spent">>,
               flat_rows \o <<[cat |-> TOTAL_LABEL, sub |-> <<>>, item |-> <<>>,
                               spent |-> total_expense(flat_rows, es)]>>)

\* _get_budget_amount of SummarySheetGenerator
RECURSIVE first_partial(_, _)
first_partial(item, budgets) ==
    IF budgets = <<>> THEN 0
    ELSE IF Contains(item, Head(budgets).key) \/ Contains(Head(budgets).key, item)
         THEN Head(budgets).amount
         ELSE first_partial(item, Tail(budgets))

get_budget_amount(item, budgets) ==
    IF item = TOTAL_LABEL \/ item = <<>>
    THEN SumSeq([i \in DOMAIN budgets |-> budgets[i].amount])
    ELSE IF \E i \in DOMAIN budgets : budgets[i].key = item
    THEN budgets[CHOOSE i \in DOMAIN budgets : budgets[i].key = item].amount
    ELSE first_partial(item, budgets)

Abs(n) == IF n < 0 THEN -n ELSE n

\* f"{num / den:.0f}" for den > 0: round half to even, the sign kept
format_0f(num, den) ==
    LET q == Abs(num) \div den
        r == Abs(num) % den
        rounded == IF 2 * r > den THEN q + 1
                   ELSE IF 2 * r < den THEN q
                   ELSE IF q % 2 = 0 THEN q ELSE q + 1
    IN  IF num < 0 THEN "-" \o Str(rounded) ELSE Str(rounded)

\* a plausible slip: the guard on the budget is left out; numpy then yields nan or inf
execution_rate_unguarded(spent, budget) ==
    IF budget = 0 THEN (IF spent = 0 THEN "nan" ELSE "inf")
    ELSE format_0f(spent * 100, budget)

\* the 집행률 cell: f"{spent / budget * 100:.0f}" if budget > 0 else "0"
execution_rate(spent, budget) ==
    IF budget > 0 THEN format_0f(spent * 100, budget) ELSE "0"

\* a plausible slip: the frame comes back as it came in
empty_as_is(hier, columns) == hier

\* the early return of _add_budget_calculations
empty_with_columns(hier, columns) == EmptySheet(columns)

\* _add_budget_calculations of SummarySheetGenerator
add_budget_calculations(bc, hier) ==
    IF Empty(hier) THEN empty_with_columns(hier, SUMMARY_SHEET_COLUMNS)
    ELSE Sheet(SUMMARY_SHEET_COLUMNS,
               [i \in DOMAIN hier.rows |->
                   LET row == hier.rows[i]
                       budget == get_budget_amount(row.item, bc.budget_amounts)
                   IN  [cat |-> row.cat, sub |-> row.sub, item |-> row.item,
                        budget |-> budget, spent |-> row.spent,
                        remaining |-> budget - row.spent,
                        rate |-> execution_rate(row.spent, budget)]])

\* a plausible slip: the sheet adds itself to the sheet the generator holds
accumulate_on_held(held, final_data) ==
    IF held.none \/ Len(held.rows) # Len(final_data.rows) THEN final_data
    ELSE [final_data EXCEPT !.rows = [i \in DOMAIN final_data.rows |->
            [final_data.rows[i] EXCEPT !.spent = @ + held.rows[i].spent]]]

\* what generate_summary_sheet hands back: final_data, whatever the generator holds
returned_sheet(held, final_data) == final_data

\* generate_summary_sheet on a generator holding `held` in summary_data:
\* the sheet returned and summary_data after the call
generate_summary_sheet(bc, held, df) ==
    IF df.none \/ Empty(df)
    THEN [sheet |-> EmptySheet(SUMMARY_SHEET_COLUMNS), summary_data |-> held]
    ELSE LET final_data ==
                 add_budget_calculations(bc,
                     create_hierarchical_structure(bc, aggregate_expenses(df)))
             sheet == returned_sheet(held, final_data)
         IN  [sheet |-> sheet, summary_data |-> sheet]

----------------------------------------------------------------------------
(* SummarySheetGenerator: the research sheet *)

TOPIC_MARKER == <<"2", "5", " ", "sim", "cheung", "yeon", "gu", "(">>  \* r'25 심층연구\('

\* re.search(r'25 심층연구\(([^)]+)\)') matches at i: the marker is at i and
\* the first ')' behind it is not right behind it
TopicEnd(s, i) ==
    LET start == i + Len(TOPIC_MARKER)
        closes == {j \in start..Len(s) : s[j] = ")"}
    IN  IF ~OccursAt(s, TOPIC_MARKER, i) \/ closes = {} THEN 0
        ELSE LET j == CHOOSE k \in closes : \A m \in closes : k <= m
             IN  IF j > start THEN j ELSE 0

\* _extract_research_topic
extract_research_topic(cell) ==
    IF cell.t # "str" THEN <<>>
    ELSE LET s == cell.s
             hits == {i \in 1..Len(s) : TopicEnd(s, i) > 0}
         IN  IF hits = {} THEN <<>>
             ELSE LET i == CHOOSE k \in hits : \A m \in hits : k <= m
                  IN  SubSeq(s, i + Len(TOPIC_MARKER), TopicEnd(s, i) - 1)

\* a plausible slip: the pattern takes one syllable, not the whole run
extract_one_syllable(cell) ==
    IF cell.t # "str" THEN <<>>
    ELSE IF \E i \in 1..(Len(cell.s) - 1) : cell.s[i] = "_" /\ cell.s[i + 1] \in Hangul
    THEN LET i == CHOOSE k \in 1..(Len(cell.s) - 1) :
                     /\ cell.s[k] = "_" /\ cell.s[k + 1] \in Hangul
                     /\ \A m \in 1..(k - 1) : ~(cell.s[m] = "_" /\ cell.s[m + 1] \in Hangul)
         IN  <<cell.s[i + 1]>>
    ELSE <<>>

\* _extract_researcher_name: re.search(r'_([가-힣]+)')
extract_researcher_name(cell) ==
    IF cell.t # "str" THEN <<>>
    ELSE LET s == cell.s
             hits == {i \in 1..(Len(s) - 1) : s[i] = "_" /\ s[i + 1] \in Hangul}
         IN  IF hits = {} THEN <<>>
             ELSE LET i == CHOOSE k \in hits : \A m \in hits : k <= m
                      ends == {k \in (i + 1)..Len(s) :
                                  \A m \in (i + 1)..k : s[m] \in Hangul}
                      last == CHOOSE k \in ends : \A m \in ends : m <= k
                  IN  SubSeq(s, i + 1, last)

PairOf(row) ==
    <<extract_research_topic(row.cells[SUMMARY_COLUMN]),
      extract_researcher_name(row.cells[SUMMARY_COLUMN])>>

PairLess(p, q) == TextLess(p[1], q[1]) \/ (p[1] = q[1] /\ TextLess(p[2], q[2]))

\* sorted(list(S)) for a set of pairs
RECURSIVE SortedPairs(_)
SortedPairs(S) ==
    IF S = {} THEN <<>>
    ELSE LET least == CHOOSE p \in S : \A q \in S \ {p} : PairLess(p, q)
         IN  <<least>> \o SortedPairs(S \ {least})

\* _extract_topic_researcher_combinations
extract_topic_researcher_combinations(df) ==
    IF ~HasColumn(df, SUMMARY_COLUMN) THEN <<>>
    ELSE SortedPairs({PairOf(df.rows[i]) :
                        i \in {j \in DOMAIN df.rows :
                                  PairOf(df.rows[j])[1] # <<>> /\ PairOf(df.rows[j])[2] # <<>>}})

\* a plausible slip: the rows are filtered by the researcher alone
filter_data_by_researcher(df, topic, researcher) ==
    IF ~HasColumn(df, SUMMARY_COLUMN) THEN BareFrame
    ELSE LET mask == {df.rows[i].idx :
                        i \in {j \in DOMAIN df.rows : PairOf(df.rows[j])[2] = researcher}}
         IN  IF mask = {} THEN BareFrame ELSE select(df, mask)

\* _filter_data_by_topic_researcher
filter_data_by_topic_researcher(df, topic, researcher) ==
    IF ~HasColumn(df, SUMMARY_COLUMN) THEN BareFrame
    ELSE LET mask == {df.rows[i].idx :
                        i \in {j \in DOMAIN df.rows : PairOf(df.rows[j]) = <<topic, researcher>>}}
         IN  IF mask = {} THEN BareFrame ELSE select(df, mask)

\* the keywords of _calculate_research_expense
RND_KEYWORDS ==                                   \* '연구개발비', '연구비', '연구개발'
    <<<<"yeon", "gu", "gae", "bal", "bi">>, <<"yeon", "gu", "bi">>,
      <<"yeon", "gu", "gae", "bal">>>>
ASSET_KEYWORDS ==          \* '자산취득비', '자산취득', '유형자산', '장비구입', '기자재'
    <<<<"ja", "san", "chwi", "deuk", "bi">>, <<"ja", "san", "chwi", "deuk">>,
      <<"yu", "hyeong", "ja", "san">>, <<"jang", "bi", "gu", "ip">>,
      <<"gi", "ja", "jae">>>>
RND_LABEL == <<"yeon", "gu", "gae", "bal", "bi">>      \* '연구개발비'
ASSET_LABEL == <<"ja", "san", "chwi", "deuk", "bi">>   \* '자산취득비'
ASSET_CATEGORY == <<"yu", "hyeong", "ja", "san">>      \* '유형자산'

\* str(row.get(column, ''))
row_get_str(df, row, column) ==
    IF ~HasColumn(df, column) THEN <<>>
    ELSE LET cell == row.cells[column] IN
         IF cell.t = "null" THEN <<"n", "a", "n">>
         ELSE IF cell.t = "str" THEN cell.s
         ELSE StrChars(cell.n)

\* category_keywords of _calculate_research_expense
category_keywords == (RND_LABEL :> RND_KEYWORDS) @@ (ASSET_LABEL :> ASSET_KEYWORDS)

\* a plausible slip: the loop over the keywords has no break
calculate_research_expense_no_break(df, keywords) ==
    IF df.none \/ Empty(df) \/ ~HasColumn(df, AMOUNT_COLUMN) THEN 0
    ELSE SumSeq([i \in DOMAIN df.rows |->
            SumSeq([k \in DOMAIN keywords |->
                IF \/ Contains(row_get_str(df, df.rows[i], ITEM_COLUMN), keywords[k])
                   \/ Contains(row_get_str(df, df.rows[i], SUMMARY_COLUMN), keywords[k])
                THEN to_numeric_fillna0(df.rows[i].cells[AMOUNT_COLUMN])
                ELSE 0])])

\* _calculate_research_expense
calculate_research_expense(df, keywords) ==
    IF df.none \/ Empty(df) \/ ~HasColumn(df, AMOUNT_COLUMN) THEN 0
    ELSE SumSeq([i \in DOMAIN df.rows |->
            IF \E k \in DOMAIN keywords :
                  \/ Contains(row_get_str(df, df.rows[i], ITEM_COLUMN), keywords[k])
                  \/ Contains(row_get_str(df, df.rows[i], SUMMARY_COLUMN), keywords[k])
            THEN to_numeric_fillna0(df.rows[i].cells[AMOUNT_COLUMN])
            ELSE 0])

\* a plausible slip: the rate of a row without budget is always '0%'
unbudgeted_rate_zero(spent) == "0%"

\* the cell '0%' or '∞%' of a row without budget
unbudgeted_rate(spent) == IF spent = 0 THEN "0%" ELSE "inf%"

synthetic_rows(df) ==
    LET research_dev_expense == calculate_research_expense(df, RND_KEYWORDS)
        asset_expense == calculate_research_expense(df, ASSET_KEYWORDS)
    IN  <<[cat |-> RND_LABEL, sub |-> RND_LABEL, item |-> RND_LABEL, budget |-> 0,
           spent |-> research_dev_expense, remaining |-> -research_dev_expense,
           rate |-> unbudgeted_rate(research_dev_expense)],
          [cat |-> ASSET_CATEGORY, sub |-> ASSET_LABEL, item |-> ASSET_LABEL, budget |-> 0,
           spent |-> asset_expense, remaining |-> -asset_expense,
           rate |-> unbudgeted_rate(asset_expense)]>>

title_row(cat, sub) ==
    [cat |-> cat, sub |-> sub, item |-> <<>>, budget |-> "", spent |-> "",
     remaining |-> "", rate |-> ""]
empty_row == title_row(<<>>, <<>>)

RECURSIVE RowsBefore(_, _)
RowsBefore(rows, label) ==
    IF rows = <<>> \/ Head(rows).cat = label THEN <<>>
    ELSE <<Head(rows)>> \o RowsBefore(Tail(rows), label)

RECURSIVE RowsWithout(_, _)
RowsWithout(rows, label) ==
    IF rows = <<>> THEN <<>>
    ELSE (IF Head(rows).cat = label THEN <<>> ELSE <<Head(rows)>>)
         \o RowsWithout(Tail(rows), label)

\* The(S) is the element of a one-element set.  The({e : x \in {v}}) is
\* LET x == v IN e with v computed once.
The(S) == CHOOSE x \in S : TRUE

\* _generate_total_summary: the grand-total table and summary_data after it
generate_total_summary(bc, held, df) ==
    The({
        IF Empty(g.sheet)
        THEN [sheet |-> EmptySheet(SUMMARY_SHEET_COLUMNS), summary_data |-> g.summary_data]
        ELSE The({
            The({
                [sheet |-> Sheet(SUMMARY_SHEET_COLUMNS,
                                 <<title_row(GRAND_TOTAL_TITLE, <<>>)>> \o body
                                 \o <<[cat |-> TOTAL_LABEL, sub |-> <<>>, item |-> <<>>,
                                       budget |-> 0, spent |-> total, remaining |-> -total,
                                       rate |-> unbudgeted_rate(total)]>>
                                 \o <<empty_row, empty_row>>),
                 summary_data |-> g.summary_data]
                : total \in {SumSeq([i \in DOMAIN body |-> body[i].spent])}})
            : body \in {RowsBefore(g.sheet.rows, TOTAL_LABEL) \o synthetic_rows(df)}})
        : g \in {generate_summary_sheet(bc, held, df)}})

\* _create_empty_budget_structure: the rows built by hand
create_empty_budget_structure(bc) ==
    LET entries == TaxonomyItems(bc) IN
    Sheet(SUMMARY_SHEET_COLUMNS,
          [i \in DOMAIN entries |->
              [cat |-> IF entries[i].is_first_category_item THEN entries[i].cat ELSE <<>>,
               sub |-> IF entries[i].is_first_subcategory_item THEN entries[i].sub ELSE <<>>,
               item |-> entries[i].item, budget |-> 0, spent |-> 0, remaining |-> 0,
               rate |-> "0%"]])

\* a plausible slip: the TOTAL row of the base summary is kept
keep_all_rows(rows) == rows

\* base_summary[base_summary['예산목'] != '총액']
without_total_rows(rows) == RowsWithout(rows, TOTAL_LABEL)

\* _generate_individual_table: the table of one (topic, researcher) pair
generate_individual_table(bc, held, filtered, topic, researcher) ==
    The({
        [sheet |-> Sheet(SUMMARY_SHEET_COLUMNS,
                         <<empty_row, empty_row>> \o <<title_row(topic, researcher)>>
                         \o without_total_rows(IF Empty(g.sheet)
                                               THEN create_empty_budget_structure(bc).rows
                                               ELSE g.sheet.rows)
                         \o synthetic_rows(filtered)
                         \o <<empty_row, empty_row>>),
         summary_data |-> g.summary_data]
        : g \in {generate_summary_sheet(bc, held, filtered)}})

\* the loop of _generate_individual_summaries: for each pair, in order, the
\* index labels of filtered_data
filtered_subsets(df) ==
    The({[k \in DOMAIN pairs |->
            [pair |-> pairs[k],
             idx |-> {r.idx : r \in Range(filter_data_by_topic_researcher(
                                             df, pairs[k][1], pairs[k][2]).rows)}]]
         : pairs \in {extract_topic_researcher_combinations(df)}})

\* the loop of _generate_individual_summaries: the tables, and summary_data at the end
RECURSIVE individual_tables(_, _, _, _)
individual_tables(bc, held, df, pairs) ==
    IF pairs = <<>> THEN [tables |-> <<>>, summary_data |-> held]
    ELSE The({
        IF Empty(filtered) THEN individual_tables(bc, held, df, Tail(pairs))
        ELSE The({
            The({
                [tables |-> <<t.sheet>> \o rest.tables, summary_data |-> rest.summary_data]
                : rest \in {individual_tables(bc, t.summary_data, df, Tail(pairs))}})
            : t \in {generate_individual_table(bc, held, filtered,
                                               Head(pairs)[1], Head(pairs)[2])}})
        : filtered \in {filter_data_by_topic_researcher(df, Head(pairs)[1], Head(pairs)[2])}})

generate_individual_summaries(bc, held, df) ==
    The({individual_tables(bc, held, df, pairs)
         : pairs \in {extract_topic_researcher_combinations(df)}})

RECURSIVE ConcatRows(_)
ConcatRows(tables) ==
    IF tables = <<>> THEN <<>> ELSE Head(tables).rows \o ConcatRows(Tail(tables))

\* generate_research_summary_sheet: all_tables, their concatenation, and
\* summary_data after the call
generate_research_summary_sheet(bc, held, df) ==
    IF df.none \/ Empty(df)
    THEN [tables |-> <<>>, sheet |-> EmptySheet(SUMMARY_SHEET_COLUMNS), summary_data |-> held]
    ELSE The({
        The({
            The({
                [tables |-> all_tables,
                 sheet |-> Sheet(SUMMARY_SHEET_COLUMNS, ConcatRows(all_tables)),
                 summary_data |-> individual.summary_data]
                : all_tables \in {<<total_summary.sheet>> \o individual.tables}})
            : individual \in {generate_individual_summaries(bc, total_summary.summary_data, df)}})
        : total_summary \in {generate_total_summary(bc, held, df)}})

----------------------------------------------------------------------------
(* TotalSheetGenerator *)

\* groupby('예산과목')[amount].sum() of _aggregate_business_expenses and
\* _aggregate_research_expenses: empty cells are no group, labels are not
\* made text, NaN amounts are skipped.  <<>> is the frame without rows that
\* every early return and every caught error yields.
total_aggregate(df) ==
    IF df.none \/ Empty(df) \/ ~HasColumn(df, AMOUNT_COLUMN) \/ ~HasColumn(df, ITEM_COLUMN)
    THEN <<>>
    ELSE LET keys == {df.rows[i].cells[ITEM_COLUMN] : i \in DOMAIN df.rows} \ {NaN} IN
         [k \in keys |->
            SumSeq([i \in DOMAIN df.rows |->
                IF df.rows[i].cells[ITEM_COLUMN] = k /\ df.rows[i].cells[AMOUNT_COLUMN].t = "num"
                THEN df.rows[i].cells[AMOUNT_COLUMN].n ELSE 0])]

\* a plausible slip: a label that contains the line-item is mapped as well,
\* as in SummarySheetGenerator
mapped_expense_partial(agg, item) ==
    IF Txt(item) \in DOMAIN agg THEN agg[Txt(item)]
    ELSE IF \E k \in DOMAIN agg : k.t = "str" /\ Contains(k.s, item)
         THEN agg[CHOOSE k \in DOMAIN agg : k.t = "str" /\ Contains(k.s, item)]
         ELSE 0

\* one cell of _map_expenses_to_structure: the mask is label == item
mapped_expense(agg, item) == IF Txt(item) \in DOMAIN agg THEN agg[Txt(item)] ELSE 0

\* _get_budget_amount of TotalSheetGenerator: default_budgets.get(item, 0)
total_get_budget_amount(item, budgets) ==
    IF \E i \in DOMAIN budgets : budgets[i].key = item
    THEN budgets[CHOOSE i \in DOMAIN budgets : budgets[i].key = item].amount
    ELSE 0

\* _create_full_hierarchical_structure, _map_expenses_to_structure and
\* _add_budget_calculations of TotalSheetGenerator
total_rows(bc, business_summary, research_summary) ==
    LET entries == TaxonomyItems(bc) IN
    [i \in DOMAIN entries |->
        LET center == mapped_expense(business_summary, entries[i].item)
            research == mapped_expense(research_summary, entries[i].item)
            budget == total_get_budget_amount(entries[i].item, bc.budget_amounts)
        IN  [cat |-> entries[i].cat, sub |-> entries[i].sub, item |-> entries[i].item,
             budget |-> budget, center |-> center, research |-> research,
             remaining |-> budget - center - research,
             rate |-> execution_rate(center + research, budget)]]

\* _add_total_row
add_total_row(rows) ==
    LET total_budget == SumSeq([i \in DOMAIN rows |-> rows[i].budget])
        total_center == SumSeq([i \in DOMAIN rows |-> rows[i].center])
        total_research == SumSeq([i \in DOMAIN rows |-> rows[i].research])
    IN  rows \o <<[cat |-> TOTAL_LABEL, sub |-> <<>>, item |-> <<>>,
                   budget |-> total_budget, center |-> total_center,
                   research |-> total_research,
                   remaining |-> total_budget - total_center - total_research,
                   rate |-> execution_rate(total_center + total_research, total_budget)]>>

\* a plausible slip: a track that cannot be aggregated empties the whole table
generate_total_sheet_strict(bc, business_data, research_data) ==
    IF \/ TaxonomyItems(bc) = <<>>
       \/ \E df \in {business_data, research_data} :
             ~df.none /\ ~Empty(df)
               /\ (~HasColumn(df, AMOUNT_COLUMN) \/ ~HasColumn(df, ITEM_COLUMN))
    THEN EmptySheet(TOTAL_SHEET_COLUMNS)
    ELSE Sheet(TOTAL_SHEET_COLUMNS,
               add_total_row(total_rows(bc, total_aggregate(business_data),
                                        total_aggregate(research_data))))

\* generate_total_sheet
generate_total_sheet(bc, business_data, research_data) ==
    IF TaxonomyItems(bc) = <<>> THEN EmptySheet(TOTAL_SHEET_COLUMNS)
    ELSE Sheet(TOTAL_SHEET_COLUMNS,
               add_total_row(total_rows(bc, total_aggregate(business_data),
                                        total_aggregate(research_data))))

----------------------------------------------------------------------------
(* Row-sets the model draws its inputs from *)

\* all sequences over S of length 0..n
SeqsUpTo(S, n) == UNION {[1..k -> S] : k \in 0..n}

\* one row of a sheet, before the layout decides which columns exist
RowSpec(memo, item, amount) == [memo |-> memo, item |-> item, amount |-> amount]

CellFor(spec, c) ==
    IF c = SUMMARY_COLUMN THEN spec.memo
    ELSE IF c = ITEM_COLUMN THEN spec.item
    ELSE IF c = AMOUNT_COLUMN THEN spec.amount
    ELSE NaN

\* the frame pd.read_excel builds: columns in sheet order, RangeIndex 0..n-1
FrameOf(columns, specs) ==
    DataFrame(columns,
              [i \in 1..Len(specs) |->
                  [idx |-> i - 1, cells |-> [c \in Range(columns) |-> CellFor(specs[i], c)]]])

FullColumns == <<SUMMARY_COLUMN, ITEM_COLUMN, AMOUNT_COLUMN>>
NoMemoColumns == <<ITEM_COLUMN, AMOUNT_COLUMN>>
NumericHeaderColumns == <<IntCol("2025"), ITEM_COLUMN, AMOUNT_COLUMN>>
NoColumns == <<>>

KIM == <<"_", "kim">>                          \* '_김'
TOPIC_GU == <<"(", "yeon", "gu", ")">>         \* '(연구)'
OTHER_LABEL == <<"gi", "ta">>                  \* '기타'

\* memo cells that decide the classification
ClassifyMemos ==
    { NaN,                                               \* empty cell
      Num(25),                                           \* numeric cell
      Txt(<<>>),
      Txt(BUSINESS_PREFIX \o KIM),                       \* '25 차세대_김'
      Txt(BUSINESS_PREFIX),
      Txt(RESEARCH_PREFIX \o TOPIC_GU \o KIM),           \* '25 심층연구(연구)_김'
      Txt(<<"2", "5", " ", "cha", "se">>),               \* the prefix cut short
      Txt(<<"x">> \o BUSINESS_PREFIX),                   \* the prefix not at the start
      Txt(<<"2", "5", " ">> \o <<"sim", "cheung">>) }

ClassifyFrames ==
    {NoneDF} \cup
    { FrameOf(columns, specs) :
        columns \in {FullColumns, NoMemoColumns, NumericHeaderColumns, NoColumns},
        specs \in SeqsUpTo({RowSpec(m, Txt(OTHER_LABEL), Num(1)) : m \in ClassifyMemos}, MaxRows) }

YEOBI == <<"yeo", "bi">>                                   \* '여비'
GUKNAE_YEOBI == <<"guk", "nae", "yeo", "bi">>               \* '국내여비'
GUKOE_YEOBI == <<"guk", "oe", "yeo", "bi">>                 \* '국외여비'
GUKOE_EOPMU_YEOBI == <<"guk", "oe", "eop", "mu", "yeo", "bi">>  \* '국외업무여비'
EOPMU_CHUJINBI == <<"eop", "mu", "chu", "jin", "bi">>       \* '업무추진비'
SAEOP_CHUJINBI == <<"sa", "eop", "chu", "jin", "bi">>       \* '사업추진비'
HOEUIBI == <<"hoe", "ui", "bi">>                            \* '회의비'

Subcategory(name, items) == [name |-> name, items |-> items]
Category(name, subcategories) == [name |-> name, subcategories |-> subcategories]
Budget(key, amount) == [key |-> key, amount |-> amount]

\* The categories '여비' and '업무추진비' of BUDGET_CLASSIFICATION, with budgets
\* on the scale of the model's amounts; '연구개발비' has a budget and no line-item.
TaxonomyConfigured ==
    [budget_categories |->
        <<Category(YEOBI, <<Subcategory(GUKNAE_YEOBI, <<GUKNAE_YEOBI>>),
                            Subcategory(GUKOE_YEOBI, <<GUKOE_EOPMU_YEOBI>>)>>),
          Category(EOPMU_CHUJINBI,
                   <<Subcategory(SAEOP_CHUJINBI, <<SAEOP_CHUJINBI, HOEUIBI>>)>>)>>,
     budget_amounts |->
        <<Budget(GUKNAE_YEOBI, 8), Budget(GUKOE_EOPMU_YEOBI, 2),
          Budget(SAEOP_CHUJINBI, 3), Budget(HOEUIBI, 0), Budget(RND_LABEL, 5)>>]

\* A taxonomy in which the line-item '여비' precedes '국내여비', which contains it.
TaxonomyShortFirst ==
    [budget_categories |->
        <<Category(YEOBI, <<Subcategory(YEOBI, <<YEOBI, GUKNAE_YEOBI>>)>>),
          Category(EOPMU_CHUJINBI, <<Subcategory(HOEUIBI, <<HOEUIBI>>)>>)>>,
     budget_amounts |->
        <<Budget(YEOBI, 4), Budget(HOEUIBI, 3)>>]

\* The same two line-items, the longer one first.
TaxonomyLongFirst ==
    [budget_categories |->
        <<Category(YEOBI, <<Subcategory(YEOBI, <<GUKNAE_YEOBI, YEOBI>>)>>),
          Category(EOPMU_CHUJINBI, <<Subcategory(HOEUIBI, <<HOEUIBI>>)>>)>>,
     budget_amounts |->
        <<Budget(GUKNAE_YEOBI, 0), Budget(YEOBI, 4), Budget(HOEUIBI, 3)>>]

Taxonomies == {TaxonomyConfigured, TaxonomyShortFirst, TaxonomyLongFirst}

BUSINESS_MEMO == Txt(BUSINESS_PREFIX \o KIM)               \* '25 차세대_김'
RESEARCH_MEMO == Txt(RESEARCH_PREFIX \o TOPIC_GU \o KIM)   \* '25 심층연구(연구)_김'
RESEARCH_MEMO_LEE == Txt(RESEARCH_PREFIX \o TOPIC_GU \o <<"_", "lee">>)  \* '25 심층연구(연구)_이'

\* '25 심층연구(연구비)_이': the topic is a keyword of the R&D expense
RESEARCH_MEMO_YEONGUBI ==
    Txt(RESEARCH_PREFIX \o <<"(", "yeon", "gu", "bi", ")">> \o <<"_", "lee">>)

\* rows of the sheets handed to the sheet generators
SummaryRowSpecs ==
    { RowSpec(BUSINESS_MEMO, Txt(GUKNAE_YEOBI), Num(1)),
      RowSpec(RESEARCH_MEMO, Txt(GUKNAE_YEOBI), Num(1)),
      RowSpec(BUSINESS_MEMO, Txt(GUKNAE_YEOBI \o <<"(", "A", ")">>), Num(1)),
      RowSpec(BUSINESS_MEMO, Txt(YEOBI), Num(1)),
      RowSpec(BUSINESS_MEMO, Txt(OTHER_LABEL), Num(2)),
      RowSpec(BUSINESS_MEMO, NaN, NaN),
      RowSpec(BUSINESS_MEMO, Txt(HOEUIBI), Txt(<<"-">>)),
      RowSpec(RESEARCH_MEMO, Txt(HOEUIBI), Num(-1)),
      RowSpec(RESEARCH_MEMO_LEE, Txt(RND_LABEL), Num(1)),
      RowSpec(RESEARCH_MEMO_YEONGUBI, Txt(GUKNAE_YEOBI \o <<"(", "A", ")">>), Num(1)) }

NoItemColumns == <<SUMMARY_COLUMN, AMOUNT_COLUMN>>
NoAmountColumns == <<SUMMARY_COLUMN, ITEM_COLUMN>>

SummaryFrames ==
    {NoneDF} \cup
    { FrameOf(FullColumns, specs) : specs \in SeqsUpTo(SummaryRowSpecs, MaxSummaryRows) } \cup
    { FrameOf(columns, specs) :
        columns \in {NoItemColumns, NoAmountColumns, NoMemoColumns, NoColumns},
        specs \in SeqsUpTo({RowSpec(BUSINESS_MEMO, Txt(GUKNAE_YEOBI), Num(1)),
                            RowSpec(RESEARCH_MEMO, Txt(HOEUIBI), Num(2))}, MaxSummaryRows) }

----------------------------------------------------------------------------
(* State *)

NoCall == [op |-> "none"]
NoProbe == [set |-> FALSE]
Threads == {1, 2}
NoFile == [name |-> "", valid |-> FALSE, frame |-> NoneDF]
NoResponse == [kind |-> "none"]

\* a worker thread of the Flask server between two requests; in a request it
\* holds the route, the statement it is at, and the handler's locals
Idle == [route |-> "idle", pc |-> "idle", file |-> NoFile, d |-> NoneDF,
         result |-> NoResult, response |-> NoResponse]

\* ExcelFileLoader.__init__
NewLoader == [file_path |-> "None", data |-> NoneDF]

NoTaxonomy == [budget_categories |-> <<>>, budget_amounts |-> <<>>]

----------------------------------------------------------------------------
(* The classifier driven alone *)

InitClassify ==
    /\ data \in ClassifyFrames
    /\ classifier = NewClassifier
    /\ call = NoCall
    /\ budget_classification = NoTaxonomy
    /\ summary_data = NoneDF
    /\ probe = NoProbe
    /\ file_loader = NewLoader
    /\ req = [t \in Threads |-> Idle]
    /\ served = 0

\* DataClassifier.classify_data(data)
ClassifyData ==
    \E r \in {classify_data(classifier, data)} :
    /\ classifier' = r.self
    /\ call' = [op |-> "classify_data", out |-> r.out, warning |-> r.warning]
    /\ UNCHANGED <<budget_classification, summary_data, data, probe, file_loader, req, served>>

NextClassify == ClassifyData

SpecClassify == InitClassify /\ [][NextClassify]_vars

----------------------------------------------------------------------------
(* Claims on the classifier *)

Classified == call.op = "classify_data" /\ ~call.out.raised
Classifiable == ~data.none /\ ~Empty(data) /\ HasColumn(data, SUMMARY_COLUMN)

\* the three returned sets that hold a row with index label i
HoldersOf(i) ==
    {k \in {"business", "research", "unclassified"} : i \in IndexOf(call.out.ret[k])}

RowOf(df, i) == CHOOSE r \in Range(df.rows) : r.idx = i

\* C1: partition completeness of classify_data.  On every non-empty row-set
\* that has the memo column, classify_data returns, the sizes of the three
\* returned sets add up to the size of the input, no index label is in two of
\* them, and every input row is in exactly one of them, its cells other than
\* the memo untouched.
C1_PartitionComplete ==
    (call.op = "classify_data" /\ Classifiable) =>
        /\ ~call.out.raised
        /\ Len(call.out.ret.business.rows) + Len(call.out.ret.research.rows)
             + Len(call.out.ret.unclassified.rows) = Len(data.rows)
        /\ IndexOf(call.out.ret.business) \cap IndexOf(call.out.ret.research) = {}
        /\ IndexOf(call.out.ret.business) \cap IndexOf(call.out.ret.unclassified) = {}
        /\ IndexOf(call.out.ret.research) \cap IndexOf(call.out.ret.unclassified) = {}
        /\ \A i \in DOMAIN data.rows :
              /\ Cardinality(HoldersOf(data.rows[i].idx)) = 1
              /\ \A k \in HoldersOf(data.rows[i].idx) :
                    /\ Cardinality({j \in DOMAIN call.out.ret[k].rows :
                                      call.out.ret[k].rows[j].idx = data.rows[i].idx}) = 1
                    /\ \A c \in Range(data.columns) \ {SUMMARY_COLUMN} :
                          RowOf(call.out.ret[k], data.rows[i].idx).cells[c] = data.rows[i].cells[c]

\* a classification in which each of the three sets received a row
C1_Witness ==
    /\ Classified
    /\ Len(data.rows) = 3
    /\ Len(call.out.ret.business.rows) = 1
    /\ Len(call.out.ret.research.rows) = 1
    /\ Len(call.out.ret.unclassified.rows) = 1

\* the memo as the claim reads it: null is the empty text, a number its decimal form
MemoAsText(cell) ==
    CASE cell.t = "null" -> <<>>
      [] cell.t = "str" -> cell.s
      [] cell.t = "num" -> StrChars(cell.n)

BeginsWith(s, p) == Len(p) <= Len(s) /\ SubSeq(s, 1, Len(p)) = p

\* C2: prefix correctness of classify_data.  An input row is in the business
\* set iff its memo (null read as the empty text, anything else as text)
\* begins with BUSINESS_PREFIX, in the research set iff it begins with
\* RESEARCH_PREFIX, and in the unclassified set iff it begins with neither.
C2_PrefixCorrect ==
    Classified =>
        \A i \in DOMAIN data.rows :
            LET memo == MemoAsText(data.rows[i].cells[SUMMARY_COLUMN])
                id == data.rows[i].idx
            IN  /\ id \in IndexOf(call.out.ret.business) <=> BeginsWith(memo, BUSINESS_PREFIX)
                /\ id \in IndexOf(call.out.ret.research) <=> BeginsWith(memo, RESEARCH_PREFIX)
                /\ id \in IndexOf(call.out.ret.unclassified) <=>
                      (~BeginsWith(memo, BUSINESS_PREFIX) /\ ~BeginsWith(memo, RESEARCH_PREFIX))

\* a classification of a null memo, a business memo and a research memo
C2_Witness ==
    /\ Classified
    /\ \E i, j, k \in DOMAIN data.rows :
          /\ data.rows[i].cells[SUMMARY_COLUMN] = NaN
          /\ data.rows[i].idx \in IndexOf(call.out.ret.unclassified)
          /\ data.rows[j].idx \in IndexOf(call.out.ret.business)
          /\ data.rows[k].idx \in IndexOf(call.out.ret.research)

\* C3: classify_data raises, and returns nothing, when the row-set is None or
\* empty or lacks the memo column; when the column is missing from a
\* non-empty row-set, the error message names every column of the input.
C3_RaisesAndEnumerates ==
    call.op = "classify_data" =>
        /\ ~Classifiable => (call.out.raised /\ call.out.ret = NoResult)
        /\ (~data.none /\ ~Empty(data) /\ ~HasColumn(data, SUMMARY_COLUMN)) =>
              \A c \in Range(data.columns) : c.v \in Range(call.out.error.message)

----------------------------------------------------------------------------
(* The sheet generators driven on one row-set *)

InitSummary ==
    /\ data \in SummaryFrames
    /\ budget_classification \in Taxonomies
    /\ summary_data = NoneDF
    /\ call = NoCall
    /\ probe = NoProbe
    /\ classifier = NewClassifier
    /\ file_loader = NewLoader
    /\ req = [t \in Threads |-> Idle]
    /\ served = 0

\* SummarySheetGenerator.generate_summary_sheet(data)
GenerateSummarySheet ==
    \E r \in {generate_summary_sheet(budget_classification, summary_data, data)} :
    /\ summary_data' = r.summary_data
    /\ call' = [op |-> "generate_summary_sheet", raised |-> FALSE, sheet |-> r.sheet,
                taken |-> taken_labels(budget_classification, data)]
    /\ probe' = IF probe.set THEN [probe EXCEPT !.again = TRUE]
                ELSE [set |-> TRUE, sheet |-> r.sheet, again |-> FALSE]
    /\ data' = caller_frame(data)
    /\ UNCHANGED <<budget_classification, classifier, file_loader, req, served>>

\* SummarySheetGenerator.generate_research_summary_sheet(data)
GenerateResearchSummarySheet ==
    \E r \in {generate_research_summary_sheet(budget_classification, summary_data, data)} :
    /\ summary_data' = r.summary_data
    /\ call' = [op |-> "generate_research_summary_sheet", raised |-> FALSE,
                tables |-> r.tables, sheet |-> r.sheet,
                filtered |-> filtered_subsets(data)]
    /\ data' = caller_frame(data)
    /\ UNCHANGED <<budget_classification, classifier, probe, file_loader, req, served>>

\* the two tracks of the row-set, as the exporter receives them from the
\* classifier; a row-set that cannot be classified is handed over as both
BusinessTrack(df) ==
    IF classify_check(df) = NoError THEN select(df, business_mask(work_data(df))) ELSE df
ResearchTrack(df) ==
    IF classify_check(df) = NoError THEN select(df, research_mask(work_data(df))) ELSE df

\* every amount cell is a number or empty (sums over text cells are not modelled)
NumericAmounts(df) ==
    HasColumn(df, AMOUNT_COLUMN) =>
        \A i \in DOMAIN df.rows : df.rows[i].cells[AMOUNT_COLUMN].t # "str"

\* TotalSheetGenerator().generate_total_sheet(business_data, research_data)
GenerateTotalSheet ==
    /\ NumericAmounts(data)
    /\ call' = [op |-> "generate_total_sheet", raised |-> FALSE,
                sheet |-> generate_total_sheet(budget_classification,
                                               BusinessTrack(data), ResearchTrack(data))]
    /\ UNCHANGED <<budget_classification, classifier, summary_data, data, probe,
                   file_loader, req, served>>

\* SummarySheetGenerator(): the next calls are made on a fresh generator
NewGenerator ==
    /\ summary_data # NoneDF
    /\ summary_data' = NoneDF
    /\ UNCHANGED <<budget_classification, classifier, data, call, probe, file_loader,
                   req, served>>

NextSummary ==
    \/ GenerateSummarySheet
    \/ GenerateResearchSummarySheet
    \/ GenerateTotalSheet
    \/ NewGenerator

SpecSummary == InitSummary /\ [][NextSummary]_vars

----------------------------------------------------------------------------
(* Claims on the sheet generators *)

Summarised == call.op = "generate_summary_sheet"

\* C4: aggregation conservation.  Whenever generate_summary_sheet returns a
\* non-empty table, its last row is the only TOTAL row and the spent amount of
\* that row is exactly the sum of the spent amounts of all rows before it.
C4_AggregationConservation ==
    (Summarised /\ ~Empty(call.sheet)) =>
        /\ call.sheet.rows[Len(call.sheet.rows)].cat = TOTAL_LABEL
        /\ \A i \in 1..(Len(call.sheet.rows) - 1) : call.sheet.rows[i].cat # TOTAL_LABEL
        /\ call.sheet.rows[Len(call.sheet.rows)].spent =
              SumSeq([i \in 1..(Len(call.sheet.rows) - 1) |-> call.sheet.rows[i].spent])

\* a sheet with a positive total made from a row-set of which one raw label
\* is taken by no line-item
C4_Witness ==
    /\ Summarised
    /\ ~Empty(call.sheet)
    /\ call.sheet.rows[Len(call.sheet.rows)].spent > 0
    /\ \E i \in DOMAIN data.rows :
          /\ data.rows[i].cells[ITEM_COLUMN] = Txt(OTHER_LABEL)
          /\ data.rows[i].cells[AMOUNT_COLUMN].t = "num"

ItemsOf(bc) == {TaxonomyItems(bc)[i].item : i \in DOMAIN TaxonomyItems(bc)}
RawLabels(df) == {item_label(df.rows[i].cells[ITEM_COLUMN]) : i \in DOMAIN df.rows}
ProperSubstring(S, L) == S # L /\ Contains(L, S)
SpentOf(sheet, item) ==
    sheet.rows[CHOOSE i \in DOMAIN sheet.rows : sheet.rows[i].item = item].spent

\* C5: reconciliation without double count.  For line-items S and L of the
\* taxonomy with S a proper substring of L, and a row-set whose only raw label
\* matching S or L is L itself, the sheet of generate_summary_sheet shows 0
\* spent for S and the summed amount of L for L, in either taxonomy order.
C5_NoDoubleCount ==
    (Summarised /\ ~data.none /\ ~Empty(data)
       /\ HasColumn(data, ITEM_COLUMN) /\ HasColumn(data, AMOUNT_COLUMN)) =>
        \A S, L \in ItemsOf(budget_classification) :
            ( /\ ProperSubstring(S, L)
              /\ L \in RawLabels(data)
              /\ \A l \in RawLabels(data) :
                    (str_contains(l, S) \/ str_contains(l, L)) => l = L ) =>
                /\ SpentOf(call.sheet, S) = 0
                /\ SpentOf(call.sheet, L) = grouped_sum(data)[L]

\* the largest amount a row of a sheet can carry: every paid amount is at most 2
MaxSpent == 2 * MaxSummaryRows

\* the execution rates a row can carry: the decimal numeral of a whole
\* number (at most 100 times the amount spent, budgets being whole), no nan,
\* no inf, no empty cell
RateNumerals ==
    {Str(n) : n \in 0..(100 * MaxSpent)} \cup {"-" \o Str(n) : n \in 0..(100 * MaxSpent)}

\* C6: execution-rate boundary.  generate_summary_sheet and
\* generate_total_sheet do not raise, every row they produce (line-item rows
\* and TOTAL row) carries a rate that is a numeral, and the rate of a row
\* whose budget amount is 0 is 0.
C6_ExecutionRateBoundary ==
    call.op \in {"generate_summary_sheet", "generate_total_sheet"} =>
        /\ ~call.raised
        /\ \A i \in DOMAIN call.sheet.rows :
              /\ call.sheet.rows[i].budget = 0 => call.sheet.rows[i].rate = "0"
              /\ call.sheet.rows[i].rate \in RateNumerals

\* a summary sheet with money spent on a line-item that has no budget
C6_Witness ==
    /\ Summarised
    /\ \E i \in DOMAIN call.sheet.rows :
          /\ call.sheet.rows[i].budget = 0
          /\ call.sheet.rows[i].spent > 0
          /\ call.sheet.rows[i].rate = "0"

\* C7: idempotence of aggregation.  Every call of generate_summary_sheet on
\* the row-set returns the rows its first call returned, on the same
\* generator or a fresh one, whatever other sheets were generated in between.
C7_Idempotent ==
    (Summarised /\ probe.set) => call.sheet = probe.sheet

\* a repeated call that returned a sheet with money spent
C7_Witness ==
    /\ Summarised
    /\ probe.set /\ probe.again
    /\ summary_data = call.sheet
    /\ ~Empty(call.sheet)
    /\ call.sheet.rows[Len(call.sheet.rows)].spent > 0

\* the distinct (topic, researcher) pairs of a row-set
Pairs(df) ==
    IF ~HasColumn(df, SUMMARY_COLUMN) THEN {}
    ELSE {PairOf(df.rows[i]) : i \in DOMAIN df.rows} \ {p \in {PairOf(df.rows[i]) : i \in DOMAIN df.rows} : p[1] = <<>> \/ p[2] = <<>>}

RowsWhere(table, field, value) ==
    {i \in DOMAIN table.rows : table.rows[i][field] = value}

\* C8: composite table shape.  For a non-empty row-set that has the line-item
\* and amount columns and holds n distinct (topic, researcher) pairs,
\* generate_research_summary_sheet returns the rows of one grand-total table
\* followed by those of n per-pair tables; the grand-total table has exactly
\* one TOTAL row; each per-pair table has no TOTAL row, one R&D row, one
\* asset-acquisition row and one row per taxonomy line-item, and no other
\* row that names a line-item.
C8_CompositeShape ==
    (call.op = "generate_research_summary_sheet" /\ ~data.none /\ ~Empty(data)
       /\ HasColumn(data, ITEM_COLUMN) /\ HasColumn(data, AMOUNT_COLUMN)) =>
        /\ ~call.raised
        /\ Len(call.tables) = 1 + Cardinality(Pairs(data))
        /\ call.sheet.rows = ConcatRows(call.tables)
        /\ Cardinality(RowsWhere(call.tables[1], "cat", TOTAL_LABEL)) = 1
        /\ \A k \in 2..Len(call.tables) :
              /\ RowsWhere(call.tables[k], "cat", TOTAL_LABEL) = {}
              /\ Cardinality(RowsWhere(call.tables[k], "item", RND_LABEL)) = 1
              /\ Cardinality(RowsWhere(call.tables[k], "item", ASSET_LABEL)) = 1
              /\ \A item \in ItemsOf(budget_classification) :
                    Cardinality(RowsWhere(call.tables[k], "item", item)) = 1
              /\ Cardinality(DOMAIN call.tables[k].rows \ RowsWhere(call.tables[k], "item", <<>>))
                    = Len(TaxonomyItems(budget_classification)) + 2

\* a research sheet made from a row-set with two pairs
C8_Witness ==
    /\ call.op = "generate_research_summary_sheet"
    /\ HasColumn(data, ITEM_COLUMN) /\ HasColumn(data, AMOUNT_COLUMN)
    /\ Cardinality(Pairs(data)) = 2
    /\ Len(call.tables) = 3

\* C9: degrade to empty.  When the row-set given to generate_summary_sheet is
\* None, is empty, or lacks the line-item column or the amount column, the
\* call does not raise and returns a table without rows whose columns are
\* SUMMARY_SHEET_COLUMNS.
C9_DegradeToEmpty ==
    (Summarised /\ (data.none \/ Empty(data) \/ ~HasColumn(data, ITEM_COLUMN)
                      \/ ~HasColumn(data, AMOUNT_COLUMN))) =>
        /\ ~call.raised
        /\ ~call.sheet.none
        /\ call.sheet.rows = <<>>
        /\ call.sheet.columns = SUMMARY_SHEET_COLUMNS

\* a call on a row-set that has rows and no line-item column
C9_Witness ==
    /\ Summarised
    /\ ~data.none /\ ~Empty(data)
    /\ ~HasColumn(data, ITEM_COLUMN) /\ HasColumn(data, AMOUNT_COLUMN)
    /\ call.sheet.rows = <<>>

----------------------------------------------------------------------------
(* KISSWebApp: /api/upload and /api/classify served by concurrent threads on
   one ExcelFileLoader and one DataClassifier.  A step is one statement of a
   handler, or of the method it calls, that reads or writes a shared object. *)

File(name, valid, frame) == [name |-> name, valid |-> valid, frame |-> frame]

\* the uploads a client sends: a sheet with one business row, a sheet with a
\* research row and an unclassified row, a sheet without the memo column, a
\* sheet without rows, and a file that is no Excel file
UploadFiles ==
    { File("a.xlsx", TRUE, FrameOf(FullColumns, <<RowSpec(BUSINESS_MEMO, Txt(HOEUIBI), Num(1))>>)),
      File("b.xlsx", TRUE, FrameOf(FullColumns, <<RowSpec(RESEARCH_MEMO, Txt(HOEUIBI), Num(1)),
                                                  RowSpec(NaN, Txt(OTHER_LABEL), Num(2))>>)),
      File("c.xlsx", TRUE, FrameOf(NoMemoColumns, <<RowSpec(NaN, Txt(HOEUIBI), Num(1))>>)),
      File("d.xlsx", TRUE, FrameOf(FullColumns, <<>>)),
      File("e.txt", FALSE, NoneDF) }

ErrorResponse(code) == [kind |-> "error", code |-> code]

\* the JSON of a successful upload: get_data_info() of the shared loader
UploadResponse(loader) ==
    [kind |-> "uploaded", file_path |-> loader.file_path,
     rows |-> Len(loader.data.rows), columns |-> loader.data.columns]

\* the JSON of a successful classification
ClassifyResponse(stats, result) ==
    [kind |-> "classified", stats |-> stats,
     business_count |-> Len(result.business.rows),
     research_count |-> Len(result.research.rows)]

InitWeb ==
    /\ file_loader = NewLoader
    /\ classifier = NewClassifier
    /\ req = [t \in Threads |-> Idle]
    /\ served = 0
    /\ data = NoneDF
    /\ budget_classification = NoTaxonomy
    /\ summary_data = NoneDF
    /\ call = NoCall
    /\ probe = NoProbe

WebUnchanged == UNCHANGED <<data, budget_classification, summary_data, call, probe>>

\* POST /api/upload arrives: file.save(temp_path)
BeginUpload(t) ==
    /\ req[t].pc = "idle"
    /\ served < MaxRequests
    /\ \E f \in UploadFiles :
          req' = [req EXCEPT ![t] = [Idle EXCEPT !.route = "upload", !.pc = "load_file",
                                                 !.file = f]]
    /\ served' = served + 1
    /\ UNCHANGED <<file_loader, classifier>>
    /\ WebUnchanged

\* ExcelFileLoader.load_file: on a valid file, file_path and data are
\* assigned before the check for an empty sheet
LoadFile(t) ==
    /\ req[t].pc = "load_file"
    /\ IF ~req[t].file.valid
       THEN /\ req' = [req EXCEPT ![t].pc = "done", ![t].response = ErrorResponse("500")]
            /\ UNCHANGED file_loader
       ELSE /\ file_loader' = [file_path |-> "./temp_" \o req[t].file.name,
                               data |-> req[t].file.frame]
            /\ req' = [req EXCEPT
                         ![t].pc = IF Empty(req[t].file.frame) THEN "done" ELSE "get_data_info",
                         ![t].response = IF Empty(req[t].file.frame) THEN ErrorResponse("500")
                                         ELSE NoResponse]
    /\ UNCHANGED <<classifier, served>>
    /\ WebUnchanged

\* file_info = self.file_loader.get_data_info(), and the response
GetDataInfo(t) ==
    /\ req[t].pc = "get_data_info"
    /\ req' = [req EXCEPT ![t].pc = "done", ![t].response = UploadResponse(file_loader)]
    /\ UNCHANGED <<file_loader, classifier, served>>
    /\ WebUnchanged

\* POST /api/classify arrives
BeginClassify(t) ==
    /\ req[t].pc = "idle"
    /\ served < MaxRequests
    /\ req' = [req EXCEPT ![t] = [Idle EXCEPT !.route = "classify", !.pc = "check"]]
    /\ served' = served + 1
    /\ UNCHANGED <<file_loader, classifier>>
    /\ WebUnchanged

\* if self.file_loader.data is None: return 400
CheckLoaded(t) ==
    /\ req[t].pc = "check"
    /\ req' = IF file_loader.data.none
              THEN [req EXCEPT ![t].pc = "done", ![t].response = ErrorResponse("400")]
              ELSE [req EXCEPT ![t].pc = "read"]
    /\ UNCHANGED <<file_loader, classifier, served>>
    /\ WebUnchanged

\* classify_data(self.file_loader.data): the argument is read, the checks at
\* the head of classify_data raise or pass, work_data and the masks are locals
ReadData(t) ==
    /\ req[t].pc = "read"
    /\ req' = IF classify_check(file_loader.data) # NoError
              THEN [req EXCEPT ![t].pc = "done", ![t].d = file_loader.data,
                               ![t].response = ErrorResponse("500")]
              ELSE [req EXCEPT ![t].pc = "store_business", ![t].d = file_loader.data]
    /\ UNCHANGED <<file_loader, classifier, served>>
    /\ WebUnchanged

\* self.business_data = work_data[business_mask].copy()
StoreBusiness(t) ==
    /\ req[t].pc = "store_business"
    /\ classifier' = [classifier EXCEPT
                        !.business_data = select(work_data(req[t].d),
                                                 business_mask(work_data(req[t].d)))]
    /\ req' = [req EXCEPT ![t].pc = "store_research"]
    /\ UNCHANGED <<file_loader, served>>
    /\ WebUnchanged

\* self.research_data = work_data[research_mask].copy()
StoreResearch(t) ==
    /\ req[t].pc = "store_research"
    /\ classifier' = [classifier EXCEPT
                        !.research_data = select(work_data(req[t].d),
                                                 research_mask(work_data(req[t].d)))]
    /\ req' = [req EXCEPT ![t].pc = "store_unclassified"]
    /\ UNCHANGED <<file_loader, served>>
    /\ WebUnchanged

\* self.unclassified_data = work_data[~(business_mask | research_mask)].copy()
StoreUnclassified(t) ==
    /\ req[t].pc = "store_unclassified"
    /\ classifier' = [classifier EXCEPT
                        !.unclassified_data = select(work_data(req[t].d),
                                                     unclassified_mask(work_data(req[t].d)))]
    /\ req' = [req EXCEPT ![t].pc = "generate_stats"]
    /\ UNCHANGED <<file_loader, served>>
    /\ WebUnchanged

\* self._generate_stats(len(data)): the counts are read from the classifier
GenerateStats(t) ==
    /\ req[t].pc = "generate_stats"
    /\ classifier' = [classifier EXCEPT
                        !.classification_stats =
                            generate_stats(classifier.business_data, classifier.research_data,
                                           classifier.unclassified_data, Len(req[t].d.rows))]
    /\ req' = [req EXCEPT ![t].pc = "return"]
    /\ UNCHANGED <<file_loader, served>>
    /\ WebUnchanged

\* return {'business': self.business_data, 'research': self.research_data, ...}
ReturnResult(t) ==
    /\ req[t].pc = "return"
    /\ req' = [req EXCEPT ![t].pc = "get_classification_stats",
                          ![t].result = [kind |-> "classification",
                                         business |-> classifier.business_data,
                                         research |-> classifier.research_data,
                                         unclassified |-> classifier.unclassified_data]]
    /\ UNCHANGED <<file_loader, classifier, served>>
    /\ WebUnchanged

\* stats = self.classifier.get_classification_stats(), and the response
GetClassificationStats(t) ==
    /\ req[t].pc = "get_classification_stats"
    /\ req' = [req EXCEPT ![t].pc = "done",
                          ![t].response = ClassifyResponse(classifier.classification_stats,
                                                           req[t].result)]
    /\ UNCHANGED <<file_loader, classifier, served>>
    /\ WebUnchanged

\* the response is sent; the thread takes the next request
Respond(t) ==
    /\ req[t].pc = "done"
    /\ req' = [req EXCEPT ![t] = Idle]
    /\ UNCHANGED <<file_loader, classifier, served>>
    /\ WebUnchanged

NextWeb ==
    \E t \in Threads :
        \/ BeginUpload(t)
        \/ LoadFile(t)
        \/ GetDataInfo(t)
        \/ BeginClassify(t)
        \/ CheckLoaded(t)
        \/ ReadData(t)
        \/ StoreBusiness(t)
        \/ StoreResearch(t)
        \/ StoreUnclassified(t)
        \/ GenerateStats(t)
        \/ ReturnResult(t)
        \/ GetClassificationStats(t)
        \/ Respond(t)

SpecWeb == InitWeb /\ [][NextWeb]_vars

----------------------------------------------------------------------------
(* Claim on the web front-end *)

\* classify_data run alone, on a classifier of its own, on the row-set d
Alone(d) == classify_data(NewClassifier, d)

\* C10: request isolation.  In every interleaving of /api/upload and
\* /api/classify requests, the stats and the business and research counts in
\* the response of a classify request are those of the classification of the
\* row-set this request classified, and the three counts of the stats add up
\* to the total.
C10_RequestIsolation ==
    \A t \in Threads :
        (req[t].pc = "done" /\ req[t].response.kind = "classified") =>
            /\ req[t].response.stats = Alone(req[t].d).self.classification_stats
            /\ req[t].response.business_count = Len(Alone(req[t].d).out.ret.business.rows)
            /\ req[t].response.research_count = Len(Alone(req[t].d).out.ret.research.rows)
            /\ req[t].response.stats.business_count + req[t].response.stats.research_count
                 + req[t].response.stats.unclassified_count = req[t].response.stats.total

----------------------------------------------------------------------------
(* The extraction functions driven on one memo cell *)

\* ExcelExporter._extract_researcher_name: re.search(r'_([가-힣]+)') on a text,
\* '' on anything else
exporter_extract_researcher_name(cell) ==
    IF cell.t # "str" THEN <<>>
    ELSE LET s == cell.s
             starts == {i \in 1..(Len(s) - 1) : s[i] = "_" /\ s[i + 1] \in Hangul}
         IN  IF starts = {} THEN <<>>
             ELSE LET i == CHOOSE k \in starts : \A m \in starts : k <= m
                      ends == {k \in (i + 1)..Len(s) : \A m \in (i + 1)..k : s[m] \in Hangul}
                  IN  SubSeq(s, i + 1, CHOOSE k \in ends : \A m \in ends : m <= k)

\* the characters of the memos: the underscore, two syllables, a letter
MemoAlphabet == {"_", "kim", "lee", "a"}

\* memo cells as pd.read_excel yields them: empty, a number, a text
MemoCells == {NaN, Num(25)} \cup {Txt(s) : s \in SeqsUpTo(MemoAlphabet, MaxMemoLen)}

InitExtract ==
    /\ data \in {FrameOf(<<SUMMARY_COLUMN>>, <<RowSpec(m, NaN, NaN)>>) : m \in MemoCells}
    /\ call = NoCall
    /\ budget_classification = NoTaxonomy
    /\ summary_data = NoneDF
    /\ probe = NoProbe
    /\ classifier = NewClassifier
    /\ file_loader = NewLoader
    /\ req = [t \in Threads |-> Idle]
    /\ served = 0

\* SummarySheetGenerator._extract_researcher_name(row['적요'])
ExtractResearcherName ==
    /\ call' = [op |-> "extract_researcher_name", raised |-> FALSE,
                out |-> extract_researcher_name(data.rows[1].cells[SUMMARY_COLUMN])]
    /\ UNCHANGED <<budget_classification, classifier, summary_data, data, probe,
                   file_loader, req, served>>

\* ExcelExporter: result['적요'].apply(self._extract_researcher_name)
ExporterExtractResearcherName ==
    /\ call' = [op |-> "exporter_extract_researcher_name", raised |-> FALSE,
                out |-> exporter_extract_researcher_name(data.rows[1].cells[SUMMARY_COLUMN])]
    /\ UNCHANGED <<budget_classification, classifier, summary_data, data, probe,
                   file_loader, req, served>>

NextExtract ==
    \/ ExtractResearcherName
    \/ ExporterExtractResearcherName

SpecExtract == InitExtract /\ [][NextExtract]_vars

Extracted == call.op \in {"extract_researcher_name", "exporter_extract_researcher_name"}
Memo == data.rows[1].cells[SUMMARY_COLUMN]

\* i is an underscore of s directly followed by a Hangul syllable
NameStart(s, i) == i < Len(s) /\ s[i] = "_" /\ s[i + 1] \in Hangul

\* C11: extract_researcher_name never raises; on a memo that is empty or not
\* a text, or a text in which no underscore is directly followed by a Hangul
\* syllable, it returns ''; otherwise it returns the run of Hangul syllables
\* that starts right after the first such underscore and ends where the text
\* ends or the next character is no Hangul syllable.
C11_ResearcherName ==
    Extracted =>
        /\ ~call.raised
        /\ (Memo.t # "str" \/ ~\E i \in 1..Len(Memo.s) : NameStart(Memo.s, i)) => call.out = <<>>
        /\ (Memo.t = "str") =>
              \A i \in 1..Len(Memo.s) :
                  (NameStart(Memo.s, i) /\ \A k \in 1..(i - 1) : ~NameStart(Memo.s, k)) =>
                      /\ call.out # <<>>
                      /\ call.out = SubSeq(Memo.s, i + 1, i + Len(call.out))
                      /\ \A k \in 1..Len(call.out) : call.out[k] \in Hangul
                      /\ i + Len(call.out) = Len(Memo.s) \/ Memo.s[i + Len(call.out) + 1] \notin Hangul

\* a name of two syllables taken after the second underscore of the memo
C11_Witness ==
    /\ Extracted
    /\ Memo.t = "str"
    /\ Len(Memo.s) = 4
    /\ Memo.s[1] = "_" /\ Memo.s[2] = "_"
    /\ call.out = <<"kim", "lee">>

----------------------------------------------------------------------------
(* Claims on the taxonomy walk *)

\* C12: consume-once reconciliation.  In one run of the taxonomy walk no raw
\* label is taken by two line-items, a label taken by a line-item is taken by
\* none after it although it would match, and the spent amount of each
\* line-item row is the sum of the grouped amounts of the labels it took.
C12_ConsumeOnce ==
    (Summarised /\ call.taken # <<>>) =>
        /\ \A i, j \in DOMAIN call.taken : i # j => call.taken[i] \cap call.taken[j] = {}
        /\ \A i \in DOMAIN call.taken :
              call.sheet.rows[i].spent = SumOver(grouped_sum(data), call.taken[i])

\* a label taken by the first line-item that equals the second line-item
C12_Witness ==
    /\ Summarised
    /\ Len(call.taken) >= 2
    /\ call.taken[1] = {call.sheet.rows[2].item}
    /\ call.taken[2] = {}
    /\ call.sheet.rows[1].spent > 0

\* the concatenation of a sequence of sequences
RECURSIVE Flat(_)
Flat(seqs) == IF seqs = <<>> THEN <<>> ELSE Head(seqs) \o Flat(Tail(seqs))

\* the line-items of one category, and of the taxonomy, in insertion order
CategoryItems(category) ==
    Flat([k \in DOMAIN category.subcategories |-> category.subcategories[k].items])
ItemsInOrder(bc) ==
    Flat([c \in DOMAIN bc.budget_categories |-> CategoryItems(bc.budget_categories[c])])

Aggregable == ~data.none /\ ~Empty(data) /\ HasColumn(data, ITEM_COLUMN)
                /\ HasColumn(data, AMOUNT_COLUMN)

\* C13: track-summary row structure.  For a row-set with the line-item and
\* amount columns and at least one row, the line-item column of the sheet of
\* generate_summary_sheet is the sequence of the taxonomy's line-items in
\* category -> subcategory -> line-item order, each once, and then one TOTAL
\* row, which is the last row and the only TOTAL row.
C13_RowStructure ==
    (Summarised /\ Aggregable) =>
        /\ Len(call.sheet.rows) = Len(ItemsInOrder(budget_classification)) + 1
        /\ \A i \in DOMAIN ItemsInOrder(budget_classification) :
              /\ call.sheet.rows[i].item = ItemsInOrder(budget_classification)[i]
              /\ call.sheet.rows[i].cat # TOTAL_LABEL
        /\ call.sheet.rows[Len(call.sheet.rows)].cat = TOTAL_LABEL
        /\ call.sheet.rows[Len(call.sheet.rows)].item = <<>>

\* a sheet of the configured taxonomy made from rows that name none of its line-items
C13_Witness ==
    /\ Summarised /\ Aggregable
    /\ budget_classification = TaxonomyConfigured
    /\ RawLabels(data) = {OTHER_LABEL}
    /\ Len(call.sheet.rows) = 5

\* the rows before the first row of subcategory k of category c
Offset(bc, c, k) ==
    Len(ItemsInOrder([bc EXCEPT !.budget_categories = SubSeq(@, 1, c - 1)]))
      + Len(Flat([m \in 1..(k - 1) |-> bc.budget_categories[c].subcategories[m].items]))

\* C14: first-row-only labels.  In the sheet of generate_summary_sheet the
\* category field of a line-item row is the category name when the row is the
\* first line-item row of its category and '' otherwise, and the subcategory
\* field is the subcategory name when the row is the first line-item row of
\* its subcategory and '' otherwise.
C14_FirstRowLabels ==
    (Summarised /\ Aggregable) =>
        \A c \in DOMAIN budget_classification.budget_categories :
            \A k \in DOMAIN budget_classification.budget_categories[c].subcategories :
                \A j \in DOMAIN budget_classification.budget_categories[c].subcategories[k].items :
                    /\ call.sheet.rows[Offset(budget_classification, c, k) + j].cat =
                          IF Offset(budget_classification, c, k) + j
                                = Offset(budget_classification, c, 1) + 1
                          THEN budget_classification.budget_categories[c].name ELSE <<>>
                    /\ call.sheet.rows[Offset(budget_classification, c, k) + j].sub =
                          IF j = 1
                          THEN budget_classification.budget_categories[c].subcategories[k].name
                          ELSE <<>>

\* the configured taxonomy: the second subcategory of '여비' shows its own
\* name and no category, the second line-item of '사업추진비' shows neither
C14_Witness ==
    /\ Summarised /\ Aggregable
    /\ budget_classification = TaxonomyConfigured
    /\ call.sheet.rows[2].cat = <<>> /\ call.sheet.rows[2].sub = GUKOE_YEOBI
    /\ call.sheet.rows[3].cat = EOPMU_CHUJINBI
    /\ call.sheet.rows[4].cat = <<>> /\ call.sheet.rows[4].sub = <<>>

\* the rows of a track summary before its TOTAL row, and the TOTAL row
LineItemRows(sheet) == SubSeq(sheet.rows, 1, Len(sheet.rows) - 1)
TotalRow(sheet) == sheet.rows[Len(sheet.rows)]

\* C15: the TOTAL row is column sums.  In the sheet of generate_summary_sheet
\* the TOTAL row's budget amount, spent amount and remainder each equal the
\* sum of that column over the line-item rows of the same sheet.
C15_TotalIsColumnSums ==
    (Summarised /\ Aggregable) =>
        /\ TotalRow(call.sheet).budget =
              SumSeq([i \in DOMAIN LineItemRows(call.sheet) |-> call.sheet.rows[i].budget])
        /\ TotalRow(call.sheet).spent =
              SumSeq([i \in DOMAIN LineItemRows(call.sheet) |-> call.sheet.rows[i].spent])
        /\ TotalRow(call.sheet).remaining =
              SumSeq([i \in DOMAIN LineItemRows(call.sheet) |-> call.sheet.rows[i].remaining])

\* C16: TOTAL-budget agreement.  With the configured taxonomy and default
\* budgets, the budget amount of the TOTAL row of a track summary equals the
\* budget amount of the TOTAL row of the totals table.
C16_TotalBudgetAgreement ==
    (/\ call.op = "generate_total_sheet" /\ ~call.raised
     /\ budget_classification = TaxonomyConfigured
     /\ ~summary_data.none /\ ~Empty(summary_data)
     /\ ~Empty(call.sheet)) =>
        TotalRow(summary_data).budget = TotalRow(call.sheet).budget

Composed == call.op = "generate_research_summary_sheet" /\ Aggregable

\* the position of the TOTAL row of the grand-total table
GrandTotalAt == CHOOSE i \in DOMAIN call.tables[1].rows : call.tables[1].rows[i].cat = TOTAL_LABEL

\* C17: grand-total TOTAL row recomputation.  In the grand-total table of the
\* research composite the TOTAL row's budget amount, spent amount and
\* remainder each equal the sum of that column over the rows between the title
\* row and the TOTAL row: the taxonomy line-item rows and the two synthetic rows.
C17_GrandTotalRecomputed ==
    Composed =>
        /\ call.tables[1].rows[GrandTotalAt].budget =
              SumSeq([i \in 1..(GrandTotalAt - 2) |-> call.tables[1].rows[i + 1].budget])
        /\ call.tables[1].rows[GrandTotalAt].spent =
              SumSeq([i \in 1..(GrandTotalAt - 2) |-> call.tables[1].rows[i + 1].spent])
        /\ call.tables[1].rows[GrandTotalAt].remaining =
              SumSeq([i \in 1..(GrandTotalAt - 2) |-> call.tables[1].rows[i + 1].remaining])

\* the rows of a table that carry one of the two synthetic line-items
SyntheticAt(table) ==
    {i \in DOMAIN table.rows : table.rows[i].item \in {RND_LABEL, ASSET_LABEL}}

\* C18: synthetic rows.  In the grand-total table and in every per-pair table
\* each of the two synthetic rows has budget amount 0, a remainder that is
\* the negation of its spent amount, and the execution rate '0%' when its
\* spent amount is 0 and '∞%' otherwise.
C18_SyntheticRows ==
    Composed =>
        \A k \in DOMAIN call.tables :
            /\ Cardinality(SyntheticAt(call.tables[k])) = 2
            /\ \A i \in SyntheticAt(call.tables[k]) :
                  /\ call.tables[k].rows[i].budget = 0
                  /\ call.tables[k].rows[i].remaining = -call.tables[k].rows[i].spent
                  /\ call.tables[k].rows[i].rate =
                        IF call.tables[k].rows[i].spent = 0 THEN "0%" ELSE "inf%"

\* a composite with a per-pair table whose R&D row has spending and whose
\* asset-acquisition row has none
C18_Witness ==
    /\ Composed
    /\ Len(call.tables) >= 2
    /\ \E i, j \in SyntheticAt(call.tables[2]) :
          /\ call.tables[2].rows[i].spent > 0 /\ call.tables[2].rows[i].rate = "inf%"
          /\ call.tables[2].rows[j].spent = 0 /\ call.tables[2].rows[j].rate = "0%"

-----------------------------------------------------------------------------
(* SpecExpense: _calculate_research_expense on bounded research row-sets *)

MaxExpenseRows == 2

YEONGUBI_MEMO == Txt(<<"yeon", "gu", "bi">>)       \* '연구비'
GIJAJAE_MEMO == Txt(<<"gi", "ja", "jae">>)         \* '기자재'

\* rows whose line-item or memo names research, an asset, both or neither
ExpenseRowSpecs ==
    { RowSpec(memo, item, amount) :
        memo \in {NaN, YEONGUBI_MEMO, GIJAJAE_MEMO},
        item \in {Txt(RND_LABEL), Txt(ASSET_LABEL), Txt(OTHER_LABEL)},
        amount \in {Num(1), Num(2), NaN} }

ExpenseFrames ==
    {NoneDF} \cup
    { FrameOf(FullColumns, specs) : specs \in SeqsUpTo(ExpenseRowSpecs, MaxExpenseRows) } \cup
    { FrameOf(columns, <<RowSpec(memo, Txt(RND_LABEL), Num(1))>>) :
        columns \in {NoItemColumns, NoAmountColumns, NoMemoColumns},
        memo \in {NaN, YEONGUBI_MEMO, GIJAJAE_MEMO} }

InitExpense ==
    /\ data \in ExpenseFrames
    /\ call = NoCall
    /\ budget_classification = NoTaxonomy
    /\ summary_data = NoneDF
    /\ probe = NoProbe
    /\ classifier = NewClassifier
    /\ file_loader = NewLoader
    /\ req = [t \in Threads |-> Idle]
    /\ served = 0

\* self._calculate_research_expense(research_data, category); call.out keeps
\* what each category returned on this row-set
CalculateResearchExpense(category) ==
    /\ call' = [op |-> "calculate_research_expense", raised |-> FALSE,
                out |-> (category :> calculate_research_expense(data, category_keywords[category]))
                        @@ (IF call.op = "calculate_research_expense" THEN call.out
                            ELSE <<>>)]
    /\ UNCHANGED <<budget_classification, classifier, summary_data, data, probe,
                   file_loader, req, served>>

CalculateRnd == CalculateResearchExpense(RND_LABEL)
CalculateAsset == CalculateResearchExpense(ASSET_LABEL)

NextExpense ==
    \/ CalculateRnd
    \/ CalculateAsset

SpecExpense == InitExpense /\ [][NextExpense]_vars

\* the rows in which a keyword occurs in the line-item text or in the memo text
KeywordRows(df, keywords) ==
    IF df.none THEN {}
    ELSE {i \in DOMAIN df.rows :
            \E k \in DOMAIN keywords :
                \/ Contains(row_get_str(df, df.rows[i], ITEM_COLUMN), keywords[k])
                \/ Contains(row_get_str(df, df.rows[i], SUMMARY_COLUMN), keywords[k])}

\* the amount of a row; an absent or empty amount counts 0
AmountOf(df, i) ==
    IF HasColumn(df, AMOUNT_COLUMN) /\ df.rows[i].cells[AMOUNT_COLUMN].t = "num"
    THEN df.rows[i].cells[AMOUNT_COLUMN].n ELSE 0

RECURSIVE AmountOver(_, _)
AmountOver(df, S) ==
    IF S = {} THEN 0
    ELSE AmountOf(df, CHOOSE i \in S : TRUE)
           + AmountOver(df, S \ {CHOOSE i \in S : TRUE})

\* C19: keyword expense.  _calculate_research_expense(rows, category) is the
\* sum of the amount over exactly the rows in which a keyword of the category
\* occurs in the line-item text or in the memo text; such a row counts once
\* however many keywords or fields match, and a row matching both categories
\* counts once in each.
C19_KeywordExpense ==
    call.op = "calculate_research_expense" =>
        \A category \in DOMAIN call.out :
            call.out[category] = AmountOver(data, KeywordRows(data, category_keywords[category]))

\* a row whose line-item matches two R&D keywords and whose memo names an
\* asset, counted once for each category, next to a row matching neither
C19_Witness ==
    /\ call.op = "calculate_research_expense"
    /\ DOMAIN call.out = {RND_LABEL, ASSET_LABEL}
    /\ ~data.none /\ Len(data.rows) = 2
    /\ KeywordRows(data, RND_KEYWORDS) = {1}
    /\ KeywordRows(data, ASSET_KEYWORDS) = {1}
    /\ AmountOf(data, 1) = 2 /\ AmountOf(data, 2) = 1
    /\ call.out[RND_LABEL] = 2 /\ call.out[ASSET_LABEL] = 2

-----------------------------------------------------------------------------
(* Claims on the per-pair tables *)

\* the per-pair subsets that hold the row with index label idx
SubsetsWith(idx) == {k \in DOMAIN call.filtered : idx \in call.filtered[k].idx}

\* C20: pair membership.  A research row whose extracted topic and researcher
\* are both non-empty is in the filtered subset of exactly one per-pair table,
\* the one of its own pair; a row for which either extraction is '' is in the
\* subset of none.  The per-pair tables follow the grand-total table in
\* ascending order of (topic, researcher), one per distinct pair.
C20_PairMembership ==
    (call.op = "generate_research_summary_sheet" /\ ~data.none /\ ~Empty(data)
       /\ HasColumn(data, SUMMARY_COLUMN)) =>
        /\ \A i \in DOMAIN data.rows :
              IF PairOf(data.rows[i])[1] # <<>> /\ PairOf(data.rows[i])[2] # <<>>
              THEN /\ Cardinality(SubsetsWith(data.rows[i].idx)) = 1
                   /\ \A k \in SubsetsWith(data.rows[i].idx) :
                         call.filtered[k].pair = PairOf(data.rows[i])
              ELSE SubsetsWith(data.rows[i].idx) = {}
        /\ Len(call.tables) = 1 + Len(call.filtered)
        /\ {call.filtered[k].pair : k \in DOMAIN call.filtered} = Pairs(data)
        /\ \A k, m \in DOMAIN call.filtered :
              k < m => PairLess(call.filtered[k].pair, call.filtered[m].pair)
        /\ \A k \in DOMAIN call.filtered :
              /\ call.tables[k + 1].rows[3].cat = call.filtered[k].pair[1]
              /\ call.tables[k + 1].rows[3].sub = call.filtered[k].pair[2]

\* two rows of two pairs that arrive in descending order: the table of the
\* second row comes first
C20_Witness ==
    /\ call.op = "generate_research_summary_sheet"
    /\ Len(call.filtered) = 2 /\ Len(call.tables) = 3
    /\ call.filtered[1].idx = {data.rows[2].idx}
    /\ call.filtered[2].idx = {data.rows[1].idx}
    /\ call.tables[2].rows[3].sub = <<"kim">>
    /\ call.tables[3].rows[3].sub = <<"lee">>

-----------------------------------------------------------------------------
(* Claims on the totals table *)

Totalled == call.op = "generate_total_sheet"

\* the rows of a track whose raw line-item label is exactly the text L
ExactRows(df, L) ==
    IF df.none \/ ~HasColumn(df, ITEM_COLUMN) \/ ~HasColumn(df, AMOUNT_COLUMN) THEN {}
    ELSE {i \in DOMAIN df.rows : df.rows[i].cells[ITEM_COLUMN] = Txt(L)}

C22_SameLabelStructure ==
    (/\ Totalled /\ Aggregable
     /\ BusinessTrack(data) = data
     /\ ~summary_data.none /\ ~Empty(summary_data)) =>
        /\ Len(call.sheet.rows) = Len(summary_data.rows)
        /\ \A i \in DOMAIN call.sheet.rows :
              /\ call.sheet.rows[i].cat = summary_data.rows[i].cat
              /\ call.sheet.rows[i].sub = summary_data.rows[i].sub
              /\ call.sheet.rows[i].item = summary_data.rows[i].item

-----------------------------------------------------------------------------
(* SpecExport: the sheet generation of ExcelExporter.export_to_excel on the
   two tracks the classifier holds *)

MaxExportRows == 1

ExportFrames(specs) ==
    {NoneDF} \cup
    { FrameOf(columns, rows) :
        columns \in {FullColumns, NoItemColumns, NoAmountColumns},
        rows \in SeqsUpTo(specs, MaxExportRows) }

BusinessExportFrames ==
    ExportFrames({RowSpec(BUSINESS_MEMO, Txt(GUKNAE_YEOBI), Num(1)),
                  RowSpec(BUSINESS_MEMO, Txt(HOEUIBI), Num(2))})
ResearchExportFrames ==
    ExportFrames({RowSpec(RESEARCH_MEMO, Txt(GUKNAE_YEOBI), Num(1)),
                  RowSpec(RESEARCH_MEMO_LEE, Txt(HOEUIBI), Num(2))})

InitExport ==
    /\ classifier \in {[NewClassifier EXCEPT !.business_data = b, !.research_data = r] :
                          b \in BusinessExportFrames, r \in ResearchExportFrames}
    /\ budget_classification \in Taxonomies
    /\ data = NoneDF
    /\ summary_data = NoneDF
    /\ call = NoCall
    /\ probe = NoProbe
    /\ file_loader = NewLoader
    /\ req = [t \in Threads |-> Idle]
    /\ served = 0

\* export_to_excel(classifier.business_data, classifier.research_data, path),
\* its sheet generation: the totals table, then on one SummarySheetGenerator
\* the business summary and the research composite
ExportToExcel ==
    \E business \in {IF classifier.business_data.none \/ Empty(classifier.business_data)
                     THEN [sheet |-> BareFrame, summary_data |-> NoneDF]
                     ELSE generate_summary_sheet(budget_classification, NoneDF,
                                                 classifier.business_data)} :
    \E research \in {IF classifier.research_data.none \/ Empty(classifier.research_data)
                     THEN [sheet |-> BareFrame, summary_data |-> business.summary_data]
                     ELSE generate_research_summary_sheet(budget_classification,
                                                          business.summary_data,
                                                          classifier.research_data)} :
        /\ call' = [op |-> "export_to_excel", raised |-> FALSE,
                    total_sheet |-> generate_total_sheet(budget_classification,
                                                         classifier.business_data,
                                                         classifier.research_data),
                    business_summary_sheet |-> business.sheet,
                    research_summary_sheet |-> research.sheet]
        /\ summary_data' = research.summary_data
        /\ UNCHANGED <<budget_classification, classifier, data, probe, file_loader,
                       req, served>>

\* the next export is made from what the classifier holds after another run
Reclassify ==
    /\ call # NoCall
    /\ classifier' \in {[classifier EXCEPT !.business_data = b, !.research_data = r] :
                           b \in BusinessExportFrames, r \in ResearchExportFrames}
    /\ call' = NoCall
    /\ summary_data' = NoneDF
    /\ UNCHANGED <<budget_classification, data, probe, file_loader, req, served>>

NextExport ==
    \/ ExportToExcel
    \/ Reclassify

SpecExport == InitExport /\ [][NextExport]_vars

Exported == call.op = "export_to_excel"

\* a track with rows that lacks the line-item or the amount column
LacksColumns(df) ==
    ~df.none /\ ~Empty(df) /\ (~HasColumn(df, ITEM_COLUMN) \/ ~HasColumn(df, AMOUNT_COLUMN))
\* a track with rows and both columns
CanAggregate(df) ==
    ~df.none /\ ~Empty(df) /\ HasColumn(df, ITEM_COLUMN) /\ HasColumn(df, AMOUNT_COLUMN)

\* C23: track independence on aggregation failure.  In one export, when the
\* rows of one track lack the columns required for aggregation and the other
\* track has them, no exception leaves the sheet generation, the summary of
\* the other track and the totals table have rows, and the failing track adds
\* 0 to every row of the totals table.
C23_TrackIndependence ==
    Exported =>
        /\ ~call.raised
        /\ (LacksColumns(classifier.business_data) /\ CanAggregate(classifier.research_data)) =>
              /\ ~Empty(call.research_summary_sheet)
              /\ ~Empty(call.total_sheet)
              /\ \A i \in DOMAIN call.total_sheet.rows : call.total_sheet.rows[i].center = 0
              /\ call.total_sheet.rows[Len(call.total_sheet.rows)].research =
                    AmountOver(classifier.research_data,
                               UNION {ExactRows(classifier.research_data, L) :
                                         L \in ItemsOf(budget_classification)})
        /\ (LacksColumns(classifier.research_data) /\ CanAggregate(classifier.business_data)) =>
              /\ ~Empty(call.business_summary_sheet)
              /\ ~Empty(call.total_sheet)
              /\ \A i \in DOMAIN call.total_sheet.rows : call.total_sheet.rows[i].research = 0
              /\ call.total_sheet.rows[Len(call.total_sheet.rows)].center =
                    AmountOver(classifier.business_data,
                               UNION {ExactRows(classifier.business_data, L) :
                                         L \in ItemsOf(budget_classification)})

\* an export whose research track has no amount column and whose business
\* track spent on a line-item
C23_Witness ==
    /\ Exported
    /\ LacksColumns(classifier.research_data)
    /\ ~HasColumn(classifier.research_data, AMOUNT_COLUMN)
    /\ CanAggregate(classifier.business_data)
    /\ ~Empty(call.business_summary_sheet)
    /\ call.total_sheet.rows[Len(call.total_sheet.rows)].center > 0

-----------------------------------------------------------------------------
(* Claims on what the sheet generators leave alone *)

\* C24: taxonomy and input are read-only.  No call of generate_summary_sheet,
\* generate_research_summary_sheet or generate_total_sheet changes the
\* taxonomy and default-budget map, or the row-set passed to it.
C24_ReadOnly ==
    [][budget_classification' = budget_classification /\ data' = data]_vars

\* a summary made, on a kept generator, from rows with an empty label and an
\* empty amount, which the preprocessing rewrites in its copy
C24_Witness ==
    /\ Summarised /\ Aggregable
    /\ probe.set /\ probe.again
    /\ preprocessed(data) # data
    /\ budget_classification = TaxonomyConfigured

-----------------------------------------------------------------------------
(* Claims on what the track summary counts *)

\* the rows whose label equals or contains a line-item of the taxonomy
LabelledRows(df, bc) ==
    {i \in DOMAIN df.rows :
        \E L \in ItemsOf(bc) : Contains(item_label(df.rows[i].cells[ITEM_COLUMN]), L)}

\* C25: no matching label is lost.  In a track summary the spent amount of the
\* TOTAL row is the sum of the amounts of all input rows whose raw label equals
\* a taxonomy line-item or contains one.
C25_NoLabelLost ==
    (Summarised /\ Aggregable) =>
        TotalRow(call.sheet).spent =
            AmountOver(data, LabelledRows(data, budget_classification))

-----------------------------------------------------------------------------
(* Claims on the grand total of the research composite *)

\* every row of the row-set yields a topic and a researcher
AllPaired(df) ==
    /\ HasColumn(df, SUMMARY_COLUMN)
    /\ \A i \in DOMAIN df.rows :
          PairOf(df.rows[i])[1] # <<>> /\ PairOf(df.rows[i])[2] # <<>>

\* C26: the grand total is the sum of the per-pair tables.  For a research
\* row-set in which every row yields a (topic, researcher) pair, the spent
\* amount of every taxonomy line-item row and of both synthetic rows of the
\* grand-total table equals the sum of the spent amounts of the same row over
\* all per-pair tables.
C26_GrandTotalIsSumOfPairs ==
    (Composed /\ AllPaired(data)) =>
        \A L \in ItemsOf(budget_classification) \cup {RND_LABEL, ASSET_LABEL} :
            SpentOf(call.tables[1], L) =
                SumSeq([k \in 1..(Len(call.tables) - 1) |-> SpentOf(call.tables[k + 1], L)])

\* C27: no row is counted twice in the grand total.  For a research row-set
\* with non-negative amounts, the spent amount of the TOTAL row of the
\* grand-total table does not exceed the sum of the amounts of all rows.
C27_NoRowCountedTwice ==
    (Composed /\ \A i \in DOMAIN data.rows : AmountOf(data, i) >= 0) =>
        call.tables[1].rows[GrandTotalAt].spent <= AmountOver(data, DOMAIN data.rows)

-----------------------------------------------------------------------------
(* SpecSession: one user's session of loading, classifying and exporting, as
   the Tk GUI (select file / classify / save) and the web routes run them one
   after another on one loader and one classifier *)

\* ExcelFileLoader.load_file(file_path) on the file found at that path: the
\* return value and the loader after it.  A file without a frame is one that
\* pd.read_excel fails to read.
load_file(self, file_path, file) ==
    IF ~file.valid THEN [ret |-> FALSE, self |-> self]
    ELSE IF file.frame.none
         THEN [ret |-> FALSE, self |-> [self EXCEPT !.file_path = file_path]]
         ELSE [ret |-> ~Empty(file.frame),
               self |-> [file_path |-> file_path, data |-> file.frame]]

\* the files of a session: those of the uploads and one that cannot be read
SessionFiles == UploadFiles \cup {File("f.xlsx", TRUE, NoneDF)}

InitSession ==
    /\ file_loader = NewLoader
    /\ classifier = NewClassifier
    /\ call = NoCall
    /\ probe = NoProbe
    /\ data = NoneDF
    /\ budget_classification = NoTaxonomy
    /\ summary_data = NoneDF
    /\ req = [t \in Threads |-> Idle]
    /\ served = 0

\* _select_file / upload_file: self.file_loader.load_file(file_path)
SessionLoadFile ==
    \E file \in SessionFiles :
    \E r \in {load_file(file_loader, file.name, file)} :
        /\ file_loader' = r.self
        /\ call' = [op |-> "load_file", ret |-> r.ret, before |-> file_loader]
        /\ UNCHANGED <<classifier, probe, data, budget_classification, summary_data,
                       req, served>>

\* _classify_data / classify_data route: classify_data(self.file_loader.data);
\* probe keeps the row-set of the last call that returned
SessionClassify ==
    /\ file_loader.data # NoneDF
    /\ \E r \in {classify_data(classifier, file_loader.data)} :
        /\ classifier' = r.self
        /\ call' = [op |-> "classify_data", out |-> r.out, warning |-> r.warning,
                    before |-> classifier]
        /\ probe' = IF r.out.raised THEN probe
                    ELSE [set |-> TRUE, classified |-> file_loader.data]
    /\ UNCHANGED <<file_loader, data, budget_classification, summary_data, req, served>>

\* _save_excel / export_excel route: export_to_excel(business_data, research_data, path)
SessionExport ==
    /\ ~(classifier.business_data = NoneDF /\ classifier.research_data = NoneDF)
    /\ call' = [op |-> "export_to_excel",
                business_data |-> classifier.business_data,
                research_data |-> classifier.research_data]
    /\ UNCHANGED <<file_loader, classifier, probe, data, budget_classification,
                   summary_data, req, served>>

NextSession ==
    \/ SessionLoadFile
    \/ SessionClassify
    \/ SessionExport

SpecSession == InitSession /\ [][NextSession]_vars

\* C28: the export matches the loaded file.  Whenever an export is performed,
\* the business and research row-sets written are the classification of the
\* data the file loader holds at that moment.
C28_ExportMatchesLoadedFile ==
    call.op = "export_to_excel" =>
        /\ ~classify_data(NewClassifier, file_loader.data).out.raised
        /\ call.business_data =
              classify_data(NewClassifier, file_loader.data).self.business_data
        /\ call.research_data =
              classify_data(NewClassifier, file_loader.data).self.research_data

\* C29: a failed load leaves the loader unchanged.  Whenever load_file
\* returns False, the loader's data and file_path are what they were before
\* the call.
C29_FailedLoadKeepsLoader ==
    (call.op = "load_file" /\ ~call.ret) => file_loader = call.before

\* the counts of rows of a row-set by the prefix of their memo
CountWhere(df, prefix) ==
    Cardinality({i \in DOMAIN df.rows :
                    BeginsWith(MemoAsText(df.rows[i].cells[SUMMARY_COLUMN]), prefix)})

\* C30: a failed classification leaves the classifier unchanged.  When
\* classify_data raises, the stored business, research and unclassified sets
\* and classification_stats are what they were before the call; and at any
\* time the stored stats add up, business_count + research_count +
\* unclassified_count = total, and describe the row-set of the most recent
\* call that returned.
C30_FailedClassifyKeepsClassifier ==
    /\ (call.op = "classify_data" /\ call.out.raised) => classifier = call.before
    /\ probe.set =>
          /\ ~classifier.classification_stats.empty
          /\ classifier.classification_stats.business_count
               + classifier.classification_stats.research_count
               + classifier.classification_stats.unclassified_count
               = classifier.classification_stats.total
          /\ classifier.classification_stats.total = Len(probe.classified.rows)
          /\ classifier.classification_stats.business_count
               = CountWhere(probe.classified, BUSINESS_PREFIX)
          /\ classifier.classification_stats.research_count
               = CountWhere(probe.classified, RESEARCH_PREFIX)
          /\ Len(classifier.business_data.rows) = CountWhere(probe.classified, BUSINESS_PREFIX)
          /\ Len(classifier.research_data.rows) = CountWhere(probe.classified, RESEARCH_PREFIX)
    /\ ~probe.set => classifier = NewClassifier

\* a classification that raised on a loaded sheet without memo column, after
\* an earlier file had been classified
C30_Witness ==
    /\ call.op = "classify_data" /\ call.out.raised
    /\ probe.set
    /\ file_loader.data # probe.classified
    /\ ~Empty(file_loader.data)
    /\ classifier.classification_stats.total = 2
    /\ classifier.classification_stats.research_count = 1

====
